---- MODULE Spec2Model ----
(***************************************************************************)
(* Model of the risk pipeline of the Solana security monitor:              *)
(*   analyzers -> aggregator -> response simulator -> backtesting,         *)
(* and of the two scheduled cycles that drive it.                          *)
(*                                                                         *)
(* Number representation (exact rational arithmetic on fixed grids):       *)
(*   - analyzer risks, component scores, weights: hundredths (0.35 = 35)   *)
(*   - overallRiskScore / stored riskScore: units of 1/400 (0.8 = 320);    *)
(*     every weighted sum of the aggregator is a multiple of 25/10000      *)
(*   - simulator confidence: units of 1/10000 (0.95 = 9500)                *)
(*   - USD liquidity, volume, market cap: units of 100 USD (5000 USD = 50) *)
(*   - invested USD amounts: exact fractions over MoneyDen                 *)
(* IEEE-754 rounding of the JavaScript doubles is not modelled.            *)
(***************************************************************************)
EXTENDS Integers, Sequences, FiniteSets, TLC

VARIABLES
  call,        \* the pure-function invocation in progress (PureSpec), or None
  store,       \* token collection: mint -> token document
  analyses,    \* RiskAnalysis collection: sequence of saved records
  simLogs,     \* SimulationLog collection: sequence of saved records
  isAnalyzing, \* RiskAnalysisService.isAnalyzing latch
  isSimulating,\* SimulationService.isSimulating latch
  acyc,        \* analysis cycle invocations: slot -> cycle record
  scyc,        \* simulation cycle invocations: slot -> cycle record
  ticks,       \* number of timer firings so far, per cycle type
  lastTick,    \* outcome of the most recent timer firing, per cycle type
  env          \* environment: which timers are armed, exceptions still to inject

vars == <<call, store, analyses, simLogs, isAnalyzing, isSimulating,
          acyc, scyc, ticks, lastTick, env>>

None == [kind |-> "none"]

Min(a, b) == IF a <= b THEN a ELSE b
Max(a, b) == IF a >= b THEN a ELSE b
Abs(a) == IF a < 0 THEN 0 - a ELSE a

\* JavaScript `x || d` on a number: 0 (like undefined) is falsy
OrDefault(x, d) == IF x = 0 THEN d ELSE x

(***************************************************************************)
(* Honeypot detector                                                       *)
(***************************************************************************)
checkMintAuthority(token) ==
  IF token.hasUnlimitedMinting THEN 30 ELSE 0

checkFreezeAuthority(token) ==
  IF token.hasPausableFunctionality THEN 40 ELSE 0

\* mutant: the LP lock is not looked at
analyzeLiquidityPattern_NoLockCheck(token) ==
  LET liquidityUSD == OrDefault(token.totalLiquidityUSD, 0)
  IN IF liquidityUSD < 10 THEN 20 ELSE IF liquidityUSD < 50 THEN 10 ELSE 0

analyzeLiquidityPattern(token) ==
  LET liquidityUSD == OrDefault(token.totalLiquidityUSD, 0)
      depth == IF liquidityUSD < 10 THEN 20
               ELSE IF liquidityUSD < 50 THEN 10 ELSE 0
      lock == IF ~token.lpTokensLocked THEN 15 ELSE 0
  IN depth + lock

analyzeHolderPattern(token) ==
  LET topHoldersConcentration == OrDefault(token.topHoldersConcentration, 0)
      totalHolders == OrDefault(token.totalHolders, 0)
      conc == IF topHoldersConcentration > 50 THEN 30
              ELSE IF topHoldersConcentration > 30 THEN 10 ELSE 0
      few == IF totalHolders < 50 THEN 20 ELSE 0
  IN conc + few

analyzeTransactionPattern(token) ==
  LET volume24h == OrDefault(token.volume24hUSD, 0)
      liquidity == OrDefault(token.totalLiquidityUSD, 0)
      ratio == IF volume24h > 0 /\ liquidity > 0 /\ volume24h > 10 * liquidity
               THEN 20 ELSE 0
      zero == IF volume24h = 0 THEN 10 ELSE 0
  IN ratio + zero

analyzePricePattern(token) ==
  LET priceChange24h == OrDefault(token.priceChange24h, 0)
  IN IF Abs(priceChange24h) > 500 THEN 30
     ELSE IF Abs(priceChange24h) > 100 THEN 10 ELSE 0

\* the catch branch of HoneypotDetectorService.analyzeToken
HoneypotFailed == [isHoneypot |-> FALSE, confidence |-> 0, risk |-> 0, failed |-> TRUE]

HoneypotAnalyzeToken(token, throws) ==
  IF throws THEN HoneypotFailed
  ELSE LET riskScore == checkMintAuthority(token) + checkFreezeAuthority(token)
                        + analyzeLiquidityPattern(token) + analyzeHolderPattern(token)
                        + analyzeTransactionPattern(token) + analyzePricePattern(token)
       IN [isHoneypot |-> riskScore > 60,
           confidence |-> Min(riskScore, 100),
           risk |-> riskScore,
           failed |-> FALSE]

(***************************************************************************)
(* Rugpull detector                                                        *)
(***************************************************************************)
analyzeDevWallet(token) ==
  LET devWalletPercentage == OrDefault(token.devWalletPercentage, 0)
      dev == IF devWalletPercentage > 20 THEN 40 ELSE 0
      susp == IF token.suspiciousHolders > 3 THEN 20 ELSE 0
  IN dev + susp

analyzeLiquidityRisk(token) ==
  LET liquidityUSD == OrDefault(token.totalLiquidityUSD, 0)
      lock == IF ~token.lpTokensLocked THEN 50
              ELSE IF token.hasUnlockTime /\ token.daysToUnlock < 30 THEN 30 ELSE 0
      depth == IF liquidityUSD < 50 THEN 20 ELSE 0
      lpPercentage == OrDefault(token.lpPercentage, 0)
      share == IF lpPercentage < 70 THEN 20 ELSE 0
  IN lock + depth + share

analyzeOwnership(token) ==
  (IF ~token.ownershipRenounced THEN 30 ELSE 0)
  + (IF token.hasUnlimitedMinting THEN 30 ELSE 0)
  + (IF token.hasBlacklist THEN 20 ELSE 0)

analyzeTokenAge(token) ==
  IF token.ageHours < 1 THEN 30
  ELSE IF token.ageHours < 24 THEN 20
  ELSE IF token.ageHours < 168 THEN 10 ELSE 0

analyzeSocialSignals(token) ==
  LET socialScore == (IF token.website THEN 25 ELSE 0) + (IF token.twitter THEN 25 ELSE 0)
                     + (IF token.telegram THEN 25 ELSE 0)
                     + (IF token.description THEN 25 ELSE 0)
  IN IF socialScore < 25 THEN 30 ELSE IF socialScore < 50 THEN 10 ELSE 0

analyzeMarketBehavior(token) ==
  LET volume24h == OrDefault(token.volume24hUSD, 0)
      marketCap == OrDefault(token.marketCapUSD, 0)
      priceChange24h == OrDefault(token.priceChange24h, 0)
  IN (IF volume24h = 0 THEN 20 ELSE 0)
     + (IF priceChange24h > 1000 THEN 30 ELSE 0)
     + (IF marketCap > 0 /\ volume24h > 0 /\ volume24h > 5 * marketCap THEN 20 ELSE 0)

RugCategorizeRiskLevel(riskScore) ==
  IF riskScore >= 80 THEN "critical"
  ELSE IF riskScore >= 60 THEN "high"
  ELSE IF riskScore >= 40 THEN "medium" ELSE "low"

\* the catch branch of RugpullDetectorService.analyzeToken
RugpullFailed ==
  [hasRugRisk |-> FALSE, riskLevel |-> "low", confidence |-> 0, risk |-> 0, failed |-> TRUE]

RugpullAnalyzeToken(token, throws) ==
  IF throws THEN RugpullFailed
  ELSE LET riskScore == analyzeDevWallet(token) + analyzeLiquidityRisk(token)
                        + analyzeOwnership(token) + analyzeTokenAge(token)
                        + analyzeSocialSignals(token) + analyzeMarketBehavior(token)
       IN [hasRugRisk |-> riskScore > 40,
           riskLevel |-> RugCategorizeRiskLevel(riskScore),
           confidence |-> Min(riskScore, 100),
           risk |-> riskScore,
           failed |-> FALSE]

(***************************************************************************)
(* Risk aggregator (RiskScoringService)                                    *)
(***************************************************************************)
\* configuration defaults, in units of 1/400
DefaultHighRiskThreshold == 280
DefaultMediumRiskThreshold == 160
DefaultConfig == [high |-> DefaultHighRiskThreshold, medium |-> DefaultMediumRiskThreshold]

\* the weights of calculateRiskScore, in hundredths
weights == [honeypot |-> 30, rugpull |-> 35, liquidity |-> 15, holders |-> 15, social |-> 5]

\* calculateLiquidityRisk with the depth bands in the opposite order
calculateLiquidityRisk_DeeperRiskier(token) ==
  LET liquidityUSD == OrDefault(token.totalLiquidityUSD, 0)
      depth == IF liquidityUSD < 10 THEN 0
               ELSE IF liquidityUSD < 50 THEN 10
               ELSE IF liquidityUSD < 100 THEN 20 ELSE 40
      lock == IF ~token.lpTokensLocked THEN 30 ELSE 0
      lpPercentage == OrDefault(token.lpPercentage, 0)
      share == IF lpPercentage < 50 THEN 20 ELSE 0
  IN Min(100, depth + lock + share)

calculateLiquidityRisk(token) ==
  LET liquidityUSD == OrDefault(token.totalLiquidityUSD, 0)
      depth == IF liquidityUSD < 10 THEN 40
               ELSE IF liquidityUSD < 50 THEN 20
               ELSE IF liquidityUSD < 100 THEN 10 ELSE 0
      lock == IF ~token.lpTokensLocked THEN 30 ELSE 0
      lpPercentage == OrDefault(token.lpPercentage, 0)
      share == IF lpPercentage < 50 THEN 20 ELSE 0
  IN Min(100, depth + lock + share)

calculateHoldersRisk(token) ==
  LET totalHolders == OrDefault(token.totalHolders, 0)
      topHoldersConcentration == OrDefault(token.topHoldersConcentration, 0)
      devWalletPercentage == OrDefault(token.devWalletPercentage, 0)
      few == IF totalHolders < 10 THEN 40
             ELSE IF totalHolders < 50 THEN 20
             ELSE IF totalHolders < 100 THEN 10 ELSE 0
      conc == IF topHoldersConcentration > 70 THEN 40
              ELSE IF topHoldersConcentration > 50 THEN 20
              ELSE IF topHoldersConcentration > 30 THEN 10 ELSE 0
      dev == IF devWalletPercentage > 20 THEN 30
             ELSE IF devWalletPercentage > 10 THEN 10 ELSE 0
  IN Min(100, few + conc + dev)

calculateSocialRisk(token) ==
  LET socialSignals == (IF token.description THEN 25 ELSE 0)
                       + (IF token.image THEN 25 ELSE 0)
                       + (IF token.website THEN 25 ELSE 0)
                       + (IF token.twitter \/ token.telegram THEN 25 ELSE 0)
  IN Max(0, 100 - socialSignals)

\* mutant: the 0.9 test made outside the HIGH_THRESHOLD test
categorizeRiskLevel_CriticalFirst(riskScore, config) ==
  IF riskScore >= 360 THEN "critical"
  ELSE IF riskScore >= config.high THEN "high"
  ELSE IF riskScore >= config.medium THEN "medium" ELSE "low"

categorizeRiskLevel(riskScore, config) ==
  IF riskScore >= config.high
  THEN (IF riskScore >= 360 THEN "critical" ELSE "high")
  ELSE IF riskScore >= config.medium THEN "medium" ELSE "low"

\* mutant: the rugpull riskLevel is not consulted
getRecommendation_ScoreOnly(riskScore, honeypotAnalysis, rugpullAnalysis) ==
  IF honeypotAnalysis.isHoneypot \/ riskScore >= 320 THEN "AVOID"
  ELSE IF riskScore >= 240 THEN "EXTREME_CAUTION"
  ELSE IF riskScore >= 120 THEN "MONITOR"
  ELSE "ACCEPTABLE"

getRecommendation(riskScore, honeypotAnalysis, rugpullAnalysis) ==
  IF honeypotAnalysis.isHoneypot \/ riskScore >= 320 THEN "AVOID"
  ELSE IF rugpullAnalysis.riskLevel = "critical" \/ riskScore >= 240 THEN "EXTREME_CAUTION"
  ELSE IF riskScore >= 120 THEN "MONITOR"
  ELSE "ACCEPTABLE"

\* in units of 1/200: (a + b) / 2 of two hundredths
calculateConfidence(honeypotAnalysis, rugpullAnalysis) ==
  Min(200, honeypotAnalysis.confidence + rugpullAnalysis.confidence)

Take(seq, n) == SubSeq(seq, 1, Min(n, Len(seq)))

identifyPrimaryConcerns(honeypotAnalysis, rugpullAnalysis, token) ==
  LET c1 == IF honeypotAnalysis.isHoneypot THEN <<"HONEYPOT DETECTED">> ELSE <<>>
      c2 == IF rugpullAnalysis.riskLevel \in {"critical", "high"}
            THEN <<"HIGH RUGPULL RISK">> ELSE <<>>
      c3 == IF token.totalLiquidityUSD # 0 /\ token.totalLiquidityUSD < 50
            THEN <<"LOW LIQUIDITY">> ELSE <<>>
      c4 == IF ~token.lpTokensLocked THEN <<"LP NOT LOCKED">> ELSE <<>>
      c5 == IF token.topHoldersConcentration # 0 /\ token.topHoldersConcentration > 50
            THEN <<"HIGH HOLDER CONCENTRATION">> ELSE <<>>
      c6 == IF ~token.ownershipRenounced THEN <<"OWNERSHIP NOT RENOUNCED">> ELSE <<>>
      c7 == IF token.hasUnlimitedMinting THEN <<"UNLIMITED MINTING">> ELSE <<>>
  IN Take(c1 \o c2 \o c3 \o c4 \o c5 \o c6 \o c7, 5)

\* the weighted sum of calculateRiskScore, in units of 1/10000
WeightedSum(scores) ==
  scores.honeypot * weights.honeypot + scores.rugpull * weights.rugpull
  + scores.liquidity * weights.liquidity + scores.holders * weights.holders
  + scores.social * weights.social

\* Math.min(1.0, sum), converted to units of 1/400
ClampScore(sum) == Min(10000, sum) \div 25

calculateRiskScore(token, honeypotAnalysis, rugpullAnalysis, config) ==
  LET componentScores ==
        [honeypot |-> IF honeypotAnalysis.isHoneypot THEN honeypotAnalysis.confidence ELSE 0,
         rugpull |-> IF rugpullAnalysis.hasRugRisk THEN rugpullAnalysis.confidence ELSE 0,
         liquidity |-> calculateLiquidityRisk(token),
         holders |-> calculateHoldersRisk(token),
         social |-> calculateSocialRisk(token)]
      overallRiskScore == ClampScore(WeightedSum(componentScores))
  IN [overallRiskScore |-> overallRiskScore,
      exact |-> WeightedSum(componentScores) % 25 = 0,
      riskLevel |-> categorizeRiskLevel(overallRiskScore, config),
      confidence |-> calculateConfidence(honeypotAnalysis, rugpullAnalysis),
      primaryConcerns |-> identifyPrimaryConcerns(honeypotAnalysis, rugpullAnalysis, token),
      recommendation |-> getRecommendation(overallRiskScore, honeypotAnalysis, rugpullAnalysis),
      componentScores |-> componentScores]

\* mutant: the component score is written back into the analyzer output
calculateRiskScoreArguments_WriteBack(token, honeypotAnalysis, rugpullAnalysis) ==
  [token |-> token,
   honeypotAnalysis |-> [honeypotAnalysis EXCEPT
                           !.confidence = IF honeypotAnalysis.isHoneypot THEN @ ELSE 0],
   rugpullAnalysis |-> rugpullAnalysis]

\* the three arguments as calculateRiskScore leaves them: neither it nor a method it
\* calls assigns to a property of an argument
calculateRiskScoreArguments(token, honeypotAnalysis, rugpullAnalysis) ==
  [token |-> token, honeypotAnalysis |-> honeypotAnalysis,
   rugpullAnalysis |-> rugpullAnalysis]

(***************************************************************************)
(* Response simulator (ResponseSimulatorService)                           *)
(***************************************************************************)
getSimulationProfiles ==
  [conservative |-> [maxInvestmentUSD |-> 500, riskTolerance |-> "conservative",
                     minLiquidityUSD |-> 100, maxRiskScore |-> 120,
                     requireLPLocked |-> TRUE, minHolders |-> 100],
   moderate |-> [maxInvestmentUSD |-> 1000, riskTolerance |-> "moderate",
                 minLiquidityUSD |-> 50, maxRiskScore |-> 200,
                 requireLPLocked |-> TRUE, minHolders |-> 50],
   aggressive |-> [maxInvestmentUSD |-> 2000, riskTolerance |-> "aggressive",
                   minLiquidityUSD |-> 10, maxRiskScore |-> 280,
                   requireLPLocked |-> FALSE, minHolders |-> 20]]

ProfileNames == {"conservative", "moderate", "aggressive"}

\* in tenths
getRiskMultiplier(riskTolerance) ==
  CASE riskTolerance = "conservative" -> 3
    [] riskTolerance = "moderate" -> 6
    [] riskTolerance = "aggressive" -> 10
    [] OTHER -> 5

\* USD amounts of the sizing step are fractions over MoneyDen = 400 * 500
MoneyDen == 400 * 500

\* parameters.maxInvestmentUSD * riskMultiplier, in whole USD
BaseInvestment(parameters) ==
  (parameters.maxInvestmentUSD * getRiskMultiplier(parameters.riskTolerance)) \div 10

\* mutant: Math.min(1, ...) left out
LiquidityAdjustment_Uncapped(liquidityUSD) == liquidityUSD

\* Math.min(1, liquidityUSD / 50000), in units of 1/500
LiquidityAdjustment(liquidityUSD) == Min(500, liquidityUSD)

\* Math.max(0, Math.min(adjustedInvestment, liquidityUSD * 0.05)), over MoneyDen
ClampInvestment(adjustedN, liquidityUSD) ==
  Max(0, Min(adjustedN, liquidityUSD * 5 * MoneyDen))

calculateInvestmentAmount(token, parameters) ==
  LET riskScore == OrDefault(token.riskScore, 200)
      liquidityUSD == OrDefault(token.totalLiquidityUSD, 0)
      baseInvestment == BaseInvestment(parameters)
      riskAdjustment == 400 - riskScore
      liquidityAdjustment == LiquidityAdjustment(liquidityUSD)
      adjustedN == baseInvestment * riskAdjustment * liquidityAdjustment
      maxInvestmentN == ClampInvestment(adjustedN, liquidityUSD)
  IN IF maxInvestmentN * 2 >= baseInvestment * MoneyDen
     THEN [action |-> "monitor", confidence |-> 70, wouldInvest |-> TRUE,
           hasMax |-> TRUE, maxInvestmentN |-> maxInvestmentN]
     ELSE IF maxInvestmentN * 5 >= baseInvestment * MoneyDen
     THEN [action |-> "investigate", confidence |-> 60, wouldInvest |-> TRUE,
           hasMax |-> TRUE, maxInvestmentN |-> maxInvestmentN]
     ELSE [action |-> "monitor", confidence |-> 50, wouldInvest |-> FALSE,
           hasMax |-> TRUE, maxInvestmentN |-> maxInvestmentN]

SentimentFactor(overallSentiment) ==
  IF overallSentiment = "bearish" THEN 8
  ELSE IF overallSentiment = "bullish" THEN 11 ELSE 10

VolatilityFactor(volatilityIndex) ==
  IF volatilityIndex > 80 THEN 9 ELSE 10

\* mutant: Math.min(1.0, ...) left out
adjustConfidenceForMarketConditions_NoCap(confidence, marketConditions) ==
  confidence * SentimentFactor(marketConditions.overallSentiment)
             * VolatilityFactor(marketConditions.volatilityIndex)

\* confidence in hundredths in, units of 1/10000 out
adjustConfidenceForMarketConditions(confidence, marketConditions) ==
  Min(10000, confidence * SentimentFactor(marketConditions.overallSentiment)
                        * VolatilityFactor(marketConditions.volatilityIndex))

NoInvestment(action, confidence) ==
  [action |-> action, confidence |-> confidence, wouldInvest |-> FALSE,
   hasMax |-> FALSE, maxInvestmentN |-> 0]

\* mutant: the risk-score rule tried before the honeypot rule
makeInvestmentDecision_RiskFirst(token, marketConditions, parameters) ==
  LET riskScore == OrDefault(token.riskScore, 400)
      d == IF riskScore >= 320 THEN NoInvestment("avoid", 90)
           ELSE IF token.isHoneypot THEN NoInvestment("avoid", 95)
           ELSE IF riskScore >= parameters.maxRiskScore THEN NoInvestment("flag", 80)
           ELSE IF OrDefault(token.totalLiquidityUSD, 0) < parameters.minLiquidityUSD
                THEN NoInvestment("avoid", 80)
           ELSE IF parameters.requireLPLocked /\ ~token.lpTokensLocked
                THEN NoInvestment("avoid", 85)
           ELSE IF OrDefault(token.totalHolders, 0) < parameters.minHolders
                THEN NoInvestment("investigate", 70)
           ELSE calculateInvestmentAmount(token, parameters)
  IN [d EXCEPT !.confidence = adjustConfidenceForMarketConditions(d.confidence, marketConditions)]

makeInvestmentDecision(token, marketConditions, parameters) ==
  LET riskScore == OrDefault(token.riskScore, 400)
      liquidityUSD == OrDefault(token.totalLiquidityUSD, 0)
      holderCount == OrDefault(token.totalHolders, 0)
      lpLocked == token.lpTokensLocked
      d == IF token.isHoneypot THEN NoInvestment("avoid", 95)
           ELSE IF riskScore >= 320 THEN NoInvestment("avoid", 90)
           ELSE IF riskScore >= parameters.maxRiskScore THEN NoInvestment("flag", 80)
           ELSE IF liquidityUSD < parameters.minLiquidityUSD THEN NoInvestment("avoid", 80)
           ELSE IF parameters.requireLPLocked /\ ~lpLocked THEN NoInvestment("avoid", 85)
           ELSE IF holderCount < parameters.minHolders THEN NoInvestment("investigate", 70)
           ELSE calculateInvestmentAmount(token, parameters)
  IN [d EXCEPT !.confidence = adjustConfidenceForMarketConditions(d.confidence, marketConditions)]

\* mutant: the decision of the invocation before is kept and returned again
simulateResponse_Cached(token, marketConditions, parameters) ==
  IF call.kind = "repeat" /\ call.stage = "between"
  THEN call.other.out
  ELSE makeInvestmentDecision(token, marketConditions, parameters)

simulateResponse(token, marketConditions, parameters) ==
  makeInvestmentDecision(token, marketConditions, parameters)

\* SimulationService.getCurrentMarketConditions
getCurrentMarketConditions == [volatilityIndex |-> 60, overallSentiment |-> "neutral"]


(***************************************************************************)
(* Backtesting (BacktestingService)                                        *)
(***************************************************************************)
\* the body of getSimulationLogsInRange: it queries nothing and returns []
getSimulationLogsInRange(persisted, startDate, endDate) == <<>>

\* the SimulationLogs a range query over the collection would select
PersistedInRange(persisted, startDate, endDate) ==
  SelectSeq(persisted, LAMBDA log : startDate <= log.day /\ log.day <= endDate)

\* tokenFlags: what getToken(log.tokenMintAddress) finds now
calculateTradeOutcome(log, tokenFlags, profit) ==
  IF log.action = "avoid"
  THEN IF tokenFlags.found /\ tokenFlags.isHoneypot THEN [avoided |-> TRUE, reason |-> "honeypot"]
       ELSE IF tokenFlags.found /\ tokenFlags.hasRugPullRisk
       THEN [avoided |-> TRUE, reason |-> "rugpull"]
       ELSE [avoided |-> TRUE, reason |-> "risk_management"]
  ELSE IF ~log.wouldInvest \/ ~log.hasMax THEN [avoided |-> TRUE, reason |-> "no_investment"]
  ELSE [avoided |-> FALSE, reason |-> IF profit THEN "profit" ELSE "loss"]

RECURSIVE CountOutcomes(_, _, _, _)
\* the loop of runBacktest over simulationLogs[i..]; profits[i] is the sign that
\* simulateTradeReturn's Math.random draws give the i-th log's return
CountOutcomes(logs, tokenFlags, profits, i) ==
  IF i > Len(logs)
  THEN [profitableTrades |-> 0, lossTrades |-> 0, rugPullsAvoided |-> 0, honeypotsStopped |-> 0]
  ELSE LET rest == CountOutcomes(logs, tokenFlags, profits, i + 1)
           outcome == calculateTradeOutcome(logs[i], tokenFlags, profits[i])
       IN [profitableTrades |-> rest.profitableTrades
                                + (IF outcome.reason = "profit" THEN 1 ELSE 0),
           lossTrades |-> rest.lossTrades + (IF outcome.reason = "loss" THEN 1 ELSE 0),
           rugPullsAvoided |-> rest.rugPullsAvoided
                               + (IF outcome.reason = "rugpull" THEN 1 ELSE 0),
           honeypotsStopped |-> rest.honeypotsStopped
                                + (IF outcome.reason = "honeypot" THEN 1 ELSE 0)]

runBacktest(persisted, startDate, endDate, tokenFlags, profits) ==
  LET simulationLogs == getSimulationLogsInRange(persisted, startDate, endDate)
  IN IF Len(simulationLogs) = 0
     THEN [outcome |-> "error", totalSimulations |-> 0,
           counts |-> CountOutcomes(<<>>, tokenFlags, profits, 1)]
     ELSE [outcome |-> "result", totalSimulations |-> Len(simulationLogs),
           counts |-> CountOutcomes(simulationLogs, tokenFlags, profits, 1)]

\* returns are counted in units of 1/ReturnDen of the invested amount
ReturnDen == 4000

\* draw = <<u1, u2>>: the two values of Math.random, in hundredths, in call order;
\* the result is the return in units of maxInvestmentUSD / ReturnDen
simulateTradeReturn(log, draw) ==
  LET investmentAmount == OrDefault(log.maxInvestmentUSD, 0)
      randomFactor == (draw[1] - 50) * 2             \* hundredths
      riskFactor == 5 * (400 - log.riskScore)        \* (1 - riskScore) * 0.5, in 1/4000
      marketFactor == 4 * (3 * draw[2] - 150)        \* random * 0.3 - 0.15, in 1/4000
  IN investmentAmount * (riskFactor + marketFactor + 8 * randomFactor)

\* calculateTradeOutcome with the return that simulateTradeReturn draws
TradeOutcome(log, tokenFlags, draw) ==
  LET ret == simulateTradeReturn(log, draw)
      outcome == calculateTradeOutcome(log, tokenFlags, ret > 0)
  IN IF outcome.avoided
     THEN [avoided |-> TRUE, reason |-> outcome.reason, return |-> 0]
     ELSE [avoided |-> FALSE, reason |-> outcome.reason, return |-> ret]

RECURSIVE TradeReturns(_, _, _, _)
\* the array `returns` that the loop of runBacktest builds from simulationLogs[i..]
TradeReturns(logs, tokenFlags, draws, i) ==
  IF i > Len(logs) THEN <<>>
  ELSE LET outcome == TradeOutcome(logs[i], tokenFlags, draws[i])
       IN (IF outcome.avoided THEN <<>> ELSE <<outcome.return>>)
          \o TradeReturns(logs, tokenFlags, draws, i + 1)

RECURSIVE SumSeq(_)
SumSeq(seq) == IF seq = <<>> THEN 0 ELSE Head(seq) + SumSeq(Tail(seq))

\* a drawdown: num / den, or +Infinity
Ratio(num, den) == [inf |-> FALSE, num |-> num, den |-> den]
Infinity == [inf |-> TRUE, num |-> 1, den |-> 0]

\* a > b on drawdowns
Exceeds(a, b) ==
  IF a.inf THEN ~b.inf
  ELSE IF b.inf THEN FALSE
  ELSE a.num * b.den > b.num * a.den

\* (peak - runningSum) / Math.abs(peak) || 0: x/0 is +Infinity for x > 0, 0/0 is NaN,
\* and NaN and 0 are falsy
Drawdown(peak, runningSum) ==
  IF peak = 0
  THEN IF peak - runningSum > 0 THEN Infinity ELSE Ratio(0, 1)
  ELSE Ratio(peak - runningSum, Abs(peak))

RECURSIVE DrawdownLoop(_, _, _, _, _)
\* the loop of calculateMaxDrawdown over returns[i..]
DrawdownLoop(returns, i, peak, maxDrawdown, runningSum) ==
  IF i > Len(returns) THEN maxDrawdown
  ELSE LET sum == runningSum + returns[i]
           newPeak == IF sum > peak THEN sum ELSE peak
           drawdown == Drawdown(newPeak, sum)
       IN DrawdownLoop(returns, i + 1, newPeak,
                       IF Exceeds(drawdown, maxDrawdown) THEN drawdown ELSE maxDrawdown,
                       sum)

calculateMaxDrawdown(returns) ==
  IF Len(returns) = 0 THEN Ratio(0, 1)
  ELSE DrawdownLoop(returns, 1, 0, Ratio(0, 1), 0)

\* the statistics runBacktest computes from the logs its query hands it (the loop and
\* the aggregation that follow the empty check); the Sharpe ratio is a function of
\* `returns`, which stands for it
BacktestStatistics(simulationLogs, tokenFlags, draws) ==
  LET counts == CountOutcomes(simulationLogs, tokenFlags,
                              [i \in 1..Len(simulationLogs) |->
                                 simulateTradeReturn(simulationLogs[i], draws[i]) > 0], 1)
      returns == TradeReturns(simulationLogs, tokenFlags, draws, 1)
      totalTrades == counts.profitableTrades + counts.lossTrades
  IN [totalSimulations |-> Len(simulationLogs),
      counts |-> counts,
      returns |-> returns,
      totalReturn |-> SumSeq(returns),
      totalTrades |-> totalTrades,
      maxDrawdown |-> calculateMaxDrawdown(returns)]

\* the body of getRecentSimulationLogs: it queries nothing and returns []
getRecentSimulationLogs(persisted, today, days) == <<>>

\* the SimulationLogs of the trailing `days` days in the collection
PersistedRecent(persisted, today, days) ==
  SelectSeq(persisted, LAMBDA log : log.day >= today - days)

\* tokenFlags: what getToken(mintAddress) finds now
getActualTokenOutcome(tokenFlags) ==
  [wasScam |-> tokenFlags.found /\ (tokenFlags.isHoneypot \/ tokenFlags.hasRugPullRisk)]

RECURSIVE AccuracyLoop(_, _, _)
\* the loop of analyzeDecisionAccuracy over recentLogs[i..]
AccuracyLoop(recentLogs, tokenFlags, i) ==
  IF i > Len(recentLogs)
  THEN [correctAvoidance |-> 0, incorrectAvoidance |-> 0,
        correctInvestment |-> 0, incorrectInvestment |-> 0]
  ELSE LET rest == AccuracyLoop(recentLogs, tokenFlags, i + 1)
           log == recentLogs[i]
           actualOutcome == getActualTokenOutcome(tokenFlags)
       IN IF log.action = "avoid" /\ actualOutcome.wasScam
          THEN [rest EXCEPT !.correctAvoidance = @ + 1]
          ELSE IF log.action = "avoid" /\ ~actualOutcome.wasScam
          THEN [rest EXCEPT !.incorrectAvoidance = @ + 1]
          ELSE IF log.wouldInvest /\ ~actualOutcome.wasScam
          THEN [rest EXCEPT !.correctInvestment = @ + 1]
          ELSE IF log.wouldInvest /\ actualOutcome.wasScam
          THEN [rest EXCEPT !.incorrectInvestment = @ + 1]
          ELSE rest

\* the trailing window of analyzeDecisionAccuracy, in days
AccuracyWindowDays == 30

\* accuracy is the fraction accuracyNum / totalDecisions, 0 when totalDecisions is 0
analyzeDecisionAccuracy(persisted, today, tokenFlags) ==
  LET recentLogs == getRecentSimulationLogs(persisted, today, AccuracyWindowDays)
      counts == AccuracyLoop(recentLogs, tokenFlags, 1)
      totalDecisions == counts.correctAvoidance + counts.incorrectAvoidance
                        + counts.correctInvestment + counts.incorrectInvestment
  IN [counts |-> counts, totalDecisions |-> totalDecisions,
      accuracyNum |-> IF totalDecisions > 0
                      THEN counts.correctAvoidance + counts.correctInvestment ELSE 0]

(***************************************************************************)
(* Inputs of the pure-function specification                               *)
(***************************************************************************)
MaxLiquidityUSD == 1000
MaxHolders == 500

\* a freshly discovered token (TokenDiscoveryService.processNewToken)
BaseToken ==
  [hasUnlimitedMinting |-> FALSE, hasPausableFunctionality |-> FALSE,
   hasBlacklist |-> FALSE, ownershipRenounced |-> TRUE,
   totalLiquidityUSD |-> 0, lpTokensLocked |-> FALSE,
   hasUnlockTime |-> FALSE, daysToUnlock |-> 0,
   totalHolders |-> 0, topHoldersConcentration |-> 0, devWalletPercentage |-> 0,
   lpPercentage |-> 0, suspiciousHolders |-> 0,
   volume24hUSD |-> 0, marketCapUSD |-> 0, priceChange24h |-> 0, ageHours |-> 0,
   description |-> FALSE, image |-> FALSE, website |-> FALSE,
   twitter |-> FALSE, telegram |-> FALSE,
   riskScore |-> 200, riskLevel |-> "medium",
   isHoneypot |-> FALSE, hasRugPullRisk |-> FALSE,
   analysisCount |-> 0, isActive |-> TRUE, stale |-> FALSE]

RiskScores == {0, 1, 100, 119, 120, 199, 200, 279, 280, 319, 320, 400}
Liquidities == {0, 9, 10, 49, 50, 99, 100, 300, 500, MaxLiquidityUSD}
HolderCounts == {0, 19, 20, 49, 50, 99, 100, MaxHolders}
Sentiments == {"bearish", "neutral", "bullish"}
Volatilities == {80, 81}
Markets == [volatilityIndex : Volatilities, overallSentiment : Sentiments]

SimTokens ==
  {[BaseToken EXCEPT !.riskScore = r, !.totalLiquidityUSD = l, !.totalHolders = h,
                     !.lpTokensLocked = lk, !.isHoneypot = hp] :
     r \in RiskScores, l \in Liquidities, h \in HolderCounts,
     lk \in BOOLEAN, hp \in BOOLEAN}

\* LP lock states: not locked, locked without unlock time, locked and unlocking in 10 days
LockStates == {<<FALSE, FALSE, 0>>, <<TRUE, FALSE, 0>>, <<TRUE, TRUE, 10>>}
\* social presence: nothing, a description only, everything
SocialStates == {<<FALSE, FALSE>>, <<TRUE, FALSE>>, <<TRUE, TRUE>>}

AggTokens ==
  {[BaseToken EXCEPT
      !.hasUnlimitedMinting = mint, !.hasPausableFunctionality = pause,
      !.ownershipRenounced = ren,
      !.lpTokensLocked = lock[1], !.hasUnlockTime = lock[2], !.daysToUnlock = lock[3],
      !.description = soc[1], !.image = soc[2], !.website = soc[2],
      !.twitter = soc[2], !.telegram = soc[2],
      !.totalLiquidityUSD = l, !.totalHolders = h, !.topHoldersConcentration = c,
      !.devWalletPercentage = d, !.lpPercentage = lp, !.volume24hUSD = v,
      !.marketCapUSD = 1000, !.ageHours = a] :
     mint \in BOOLEAN, pause \in BOOLEAN, ren \in BOOLEAN,
     lock \in LockStates, soc \in SocialStates,
     l \in {0, 9, 49, MaxLiquidityUSD}, h \in {5, 70, MaxHolders}, c \in {10, 40, 80},
     d \in {0, 25}, lp \in {30, 80}, v \in {0, 20}, a \in {0, 1000}}

MaxLogs == 2
LogDays == {1, 5}
BacktestLogs ==
  [day : LogDays, action : {"avoid", "monitor"}, wouldInvest : BOOLEAN, hasMax : {TRUE}]
PersistedLogSets ==
  {<<>>} \cup {<<a>> : a \in BacktestLogs}
         \cup (IF MaxLogs >= 2 THEN {<<a, b>> : a \in BacktestLogs, b \in BacktestLogs} ELSE {})
         \cup (IF MaxLogs >= 3
               THEN {<<a, a, b>> : a \in BacktestLogs, b \in BacktestLogs} ELSE {})
DateRanges == {<<0, 9>>, <<3, 9>>}
TokenFlagStates ==
  {[found |-> FALSE, isHoneypot |-> FALSE, hasRugPullRisk |-> FALSE]}
  \cup [found : {TRUE}, isHoneypot : BOOLEAN, hasRugPullRisk : BOOLEAN]

\* configured thresholds (HIGH_RISK_THRESHOLD, MEDIUM_RISK_THRESHOLD), units of 1/400
Configs == [high : {200, 280, 380}, medium : {120, 160, 240}]

(***************************************************************************)
(* PureSpec: each step applies one pure function of the core to an input   *)
(***************************************************************************)
SchedulerVars == <<store, analyses, simLogs, isAnalyzing, isSimulating,
                   acyc, scyc, ticks, lastTick, env>>

PInit ==
  /\ call = None
  /\ store = <<>> /\ analyses = <<>> /\ simLogs = <<>>
  /\ isAnalyzing = FALSE /\ isSimulating = FALSE
  /\ acyc = <<>> /\ scyc = <<>>
  /\ ticks = [analysis |-> 0, simulation |-> 0]
  /\ lastTick = [analysis |-> "none", simulation |-> "none"]
  /\ env = [armed |-> {}, maxTicks |-> 0, faultsLeft |-> 0]

CallSimulateResponse ==
  /\ call = None
  /\ \E token \in SimTokens, m \in Markets, p \in ProfileNames :
       call' = [kind |-> "simulateResponse", token |-> token, market |-> m,
                parameters |-> getSimulationProfiles[p],
                decision |-> simulateResponse(token, m, getSimulationProfiles[p])]
  /\ UNCHANGED SchedulerVars

\* RiskAnalysisService.analyzeToken up to the aggregation
CallCalculateRiskScore ==
  /\ call = None
  /\ \E token \in AggTokens, fail \in {"none", "honeypot", "rugpull"} :
       LET honeypotAnalysis == HoneypotAnalyzeToken(token, fail = "honeypot")
           rugpullAnalysis == RugpullAnalyzeToken(token, fail = "rugpull")
       IN call' = [kind |-> "calculateRiskScore", token |-> token,
                   honeypotAnalysis |-> honeypotAnalysis,
                   rugpullAnalysis |-> rugpullAnalysis,
                   config |-> DefaultConfig,
                   assessment |-> calculateRiskScore(token, honeypotAnalysis,
                                                     rugpullAnalysis, DefaultConfig)]
  /\ UNCHANGED SchedulerVars

CallCategorizeRiskLevel ==
  /\ call = None
  /\ \E riskScore \in 0..400, config \in Configs :
       call' = [kind |-> "categorizeRiskLevel", riskScore |-> riskScore,
                config |-> config,
                riskLevel |-> categorizeRiskLevel(riskScore, config)]
  /\ UNCHANGED SchedulerVars

CallRunBacktest ==
  /\ call = None
  /\ \E persisted \in PersistedLogSets, range \in DateRanges,
        tokenFlags \in TokenFlagStates, profit \in BOOLEAN :
       call' = [kind |-> "runBacktest", persisted |-> persisted,
                startDate |-> range[1], endDate |-> range[2], tokenFlags |-> tokenFlags,
                result |-> runBacktest(persisted, range[1], range[2], tokenFlags,
                                       [i \in 1..(MaxLogs + 1) |-> profit])]
  /\ UNCHANGED SchedulerVars

Return ==
  /\ call # None
  /\ call' = None
  /\ UNCHANGED SchedulerVars

PNext ==
  \/ CallSimulateResponse \/ CallCalculateRiskScore \/ CallCategorizeRiskLevel
  \/ CallRunBacktest \/ Return

PureSpec == PInit /\ [][PNext]_vars

(***************************************************************************)
(* RepeatSpec: a function is invoked, possibly invoked on something else,  *)
(* and invoked again on the arguments of the first invocation              *)
(***************************************************************************)
RepeatSimInputs ==
  [token : {t \in SimTokens : /\ t.totalHolders \in {49, MaxHolders}
                              /\ t.totalLiquidityUSD \in {49, 300, MaxLiquidityUSD}},
   market : Markets,
   parameters : {getSimulationProfiles[p] : p \in ProfileNames}]

\* invocations made in between
OtherSimInputs ==
  {[token |-> [BaseToken EXCEPT !.isHoneypot = TRUE], market |-> getCurrentMarketConditions,
    parameters |-> getSimulationProfiles["moderate"]],
   [token |-> [BaseToken EXCEPT !.riskScore = 100, !.totalLiquidityUSD = MaxLiquidityUSD,
                                !.lpTokensLocked = TRUE, !.totalHolders = MaxHolders],
    market |-> [volatilityIndex |-> 81, overallSentiment |-> "bullish"],
    parameters |-> getSimulationProfiles["aggressive"]]}

AnalyzerOutputs(token, fail) ==
  [token |-> token,
   honeypotAnalysis |-> HoneypotAnalyzeToken(token, fail = "honeypot"),
   rugpullAnalysis |-> RugpullAnalyzeToken(token, fail = "rugpull")]

RepeatAggInputs ==
  {AnalyzerOutputs(t, fail) :
     t \in {u \in AggTokens : /\ u.volume24hUSD = 0 /\ u.ageHours = 0
                              /\ u.lpPercentage = 30 /\ u.devWalletPercentage = 0},
     fail \in {"none", "honeypot", "rugpull"}}

OtherAggInputs ==
  {AnalyzerOutputs([BaseToken EXCEPT !.hasPausableFunctionality = TRUE], "none"),
   AnalyzerOutputs([BaseToken EXCEPT !.totalLiquidityUSD = MaxLiquidityUSD,
                                     !.lpTokensLocked = TRUE, !.totalHolders = MaxHolders],
                   "none")}

Invoke(fn, input) ==
  IF fn = "simulateResponse"
  THEN [out |-> simulateResponse(input.token, input.market, input.parameters),
        after |-> input]
  ELSE [out |-> calculateRiskScore(input.token, input.honeypotAnalysis,
                                   input.rugpullAnalysis, DefaultConfig),
        after |-> calculateRiskScoreArguments(input.token, input.honeypotAnalysis,
                                              input.rugpullAnalysis)]

RepeatFirst ==
  /\ call = None
  /\ \E fn \in {"simulateResponse", "calculateRiskScore"} :
       \E input \in (IF fn = "simulateResponse" THEN RepeatSimInputs ELSE RepeatAggInputs) :
         call' = [kind |-> "repeat", fn |-> fn, stage |-> "first", input |-> input,
                  first |-> Invoke(fn, input), other |-> None, second |-> None]
  /\ UNCHANGED SchedulerVars

RepeatBetween ==
  /\ call.kind = "repeat" /\ call.stage = "first"
  /\ \E input \in (IF call.fn = "simulateResponse" THEN OtherSimInputs ELSE OtherAggInputs) :
       call' = [call EXCEPT !.stage = "between",
                            !.other = [input |-> input, out |-> Invoke(call.fn, input).out]]
  /\ UNCHANGED SchedulerVars

\* the second invocation gets the objects the first invocation was given
RepeatSecond ==
  /\ call.kind = "repeat" /\ call.stage \in {"first", "between"}
  /\ call' = [call EXCEPT !.stage = "second", !.second = Invoke(call.fn, call.first.after)]
  /\ UNCHANGED SchedulerVars

RNext == RepeatFirst \/ RepeatBetween \/ RepeatSecond \/ Return

RepeatSpec == PInit /\ [][RNext]_vars

(***************************************************************************)
(* The store and the two scheduled cycles                                  *)
(***************************************************************************)
MaxTokens == 2
BatchTokens == 6
MaxTicks == 2
MaxFaults == 2
NumSlots == 2
BatchTicks == 1
BatchFaults == 2
LiveTokens == 1
LiveFaults == 1
BatchSize == 5
ReanalysisLimit == 50
SimulationLimit == 20

Slots == 1..NumSlots

\* three token snapshots: a thin unlocked pool, a deep locked pool, a freezable token
TokenKind(m) ==
  CASE m % 3 = 1 ->
         [BaseToken EXCEPT !.totalLiquidityUSD = 50, !.totalHolders = 100,
                           !.topHoldersConcentration = 60, !.devWalletPercentage = 10,
                           !.lpPercentage = 5, !.ownershipRenounced = FALSE,
                           !.volume24hUSD = 20, !.marketCapUSD = 1000, !.ageHours = 1000,
                           !.stale = TRUE]
    [] m % 3 = 2 ->
         [BaseToken EXCEPT !.totalLiquidityUSD = 500, !.lpTokensLocked = TRUE,
                           !.totalHolders = 500, !.topHoldersConcentration = 10,
                           !.lpPercentage = 80, !.volume24hUSD = 20,
                           !.marketCapUSD = 1000, !.ageHours = 1000,
                           !.description = TRUE, !.image = TRUE, !.website = TRUE,
                           !.twitter = TRUE, !.stale = TRUE]
    [] OTHER ->
         [BaseToken EXCEPT !.hasUnlimitedMinting = TRUE, !.hasPausableFunctionality = TRUE,
                           !.ownershipRenounced = FALSE, !.hasRugPullRisk = TRUE,
                           !.totalLiquidityUSD = 3,
                           !.totalHolders = 5, !.topHoldersConcentration = 80,
                           !.stale = TRUE]

Mints == DOMAIN store

\* the elements of a set of mints, ascending
Ascending(S) ==
  [k \in 1..Cardinality(S) |-> CHOOSE x \in S : Cardinality({y \in S : y < x}) = k - 1]

Reverse(seq) == [k \in 1..Len(seq) |-> seq[Len(seq) + 1 - k]]

\* DatabaseService.getTokensRequiringReanalysis: the documents found, in natural order
getTokensRequiringReanalysis ==
  LET found == Ascending({m \in Mints : store[m].isActive /\ store[m].stale})
  IN [k \in 1..Min(ReanalysisLimit, Len(found)) |-> [mint |-> found[k], doc |-> store[found[k]]]]

\* DatabaseService.getTokensByRiskLevel(MEDIUM, 20): newest first
getTokensByRiskLevel(riskLevel, limit) ==
  LET found == Reverse(Ascending({m \in Mints : store[m].isActive /\ store[m].riskLevel = riskLevel}))
  IN [k \in 1..Min(limit, Len(found)) |-> [mint |-> found[k], doc |-> store[found[k]]]]

\* DatabaseService.updateToken: the patch of analyzeToken and a new lastAnalyzedAt
updateToken(mint, patch) ==
  [store EXCEPT ![mint] = [@ EXCEPT !.riskScore = patch.riskScore,
                                    !.riskLevel = patch.riskLevel,
                                    !.analysisCount = patch.analysisCount,
                                    !.isHoneypot = patch.isHoneypot,
                                    !.hasRugPullRisk = patch.hasRugPullRisk,
                                    !.stale = FALSE]]

NoLast == [ended |-> FALSE, queryFailed |-> FALSE, cycleCatch |-> FALSE,
           listLen |-> 0, settled |-> 0, failures |-> 0]

IdleCycle(last) == [pc |-> "idle", tokens |-> <<>>, i |-> 0, tasks |-> <<>>, last |-> last]

\* RiskAnalysisService.analyzeToken up to the first database call; fault is the
\* analyzer that throws, if any ("other": the liquidity or the holder analyzer)
StartAnalyzeToken(entry, fault) ==
  IF fault = "other"
  THEN [mint |-> entry.mint, before |-> entry.doc, pc |-> "failed", failedAt |-> "analyzer",
        fault |-> fault, patch |-> None]
  ELSE LET token == entry.doc
           honeypotAnalysis == HoneypotAnalyzeToken(token, fault = "honeypot")
           rugpullAnalysis == RugpullAnalyzeToken(token, fault = "rugpull")
           riskAssessment == calculateRiskScore(token, honeypotAnalysis, rugpullAnalysis,
                                                DefaultConfig)
       IN [mint |-> entry.mint, before |-> token, pc |-> "update", failedAt |-> "none",
           fault |-> fault,
           patch |-> [riskScore |-> riskAssessment.overallRiskScore,
                      riskLevel |-> riskAssessment.riskLevel,
                      analysisCount |-> token.analysisCount + 1,
                      isHoneypot |-> honeypotAnalysis.isHoneypot,
                      hasRugPullRisk |-> rugpullAnalysis.hasRugRisk]]

\* mutant: no try/catch around analyzeToken
analyzeTokenSafely_NoCatch(taskPc) ==
  CASE taskPc = "done" -> "resolved"
    [] taskPc = "failed" -> "rejected"
    [] OTHER -> "pending"

\* RiskAnalysisService.analyzeTokenSafely: how its promise settles
analyzeTokenSafely(taskPc) ==
  CASE taskPc = "done" -> "resolved"
    [] taskPc = "failed" -> "resolved"
    [] OTHER -> "pending"

\* mutant: no try/catch inside the simulation loop
SimulationThrowPropagates_NoCatch(threw) == threw

\* the try/catch around simulateTokenResponse in runSimulationsScheduled:
\* does a throw of the call leave the loop?
SimulationThrowPropagates(threw) == FALSE

FaultKinds == {"none", "honeypot", "rugpull", "other"}

FaultCount(faults) == Cardinality({k \in DOMAIN faults : faults[k] # "none"})

\* the batch tokens[i .. i + batchSize - 1] with every analyzeTokenSafely started
StartBatch(tokens, i, faults) ==
  [k \in 1..Min(BatchSize, Len(tokens) - i + 1) |-> StartAnalyzeToken(tokens[i + k - 1], faults[k])]

FreeSlot(cyc) == CHOOSE s \in Slots : cyc[s].pc = "idle" /\ \A t \in Slots : cyc[t].pc = "idle" => s <= t

\* mutant: the latch is not consulted
AnalysisLatchBlocks_Never == FALSE

\* `if (this.isAnalyzing) return;`
AnalysisLatchBlocks == isAnalyzing

\* mutant: the latch is not consulted
SimulationLatchBlocks_Never == FALSE

\* `if (this.isSimulating) return;`
SimulationLatchBlocks == isSimulating

UseFault == /\ env.faultsLeft > 0
            /\ env' = [env EXCEPT !.faultsLeft = @ - 1]

\* the cron timer of analyzeTokensScheduled fires
AnalysisTick ==
  /\ "analysis" \in env.armed
  /\ ticks.analysis < env.maxTicks
  /\ ticks' = [ticks EXCEPT !.analysis = @ + 1]
  /\ IF AnalysisLatchBlocks
     THEN /\ lastTick' = [lastTick EXCEPT !.analysis = "skipped"]
          /\ UNCHANGED <<isAnalyzing, acyc>>
     ELSE /\ \E s \in Slots : acyc[s].pc = "idle"
          /\ isAnalyzing' = TRUE
          /\ acyc' = [acyc EXCEPT ![FreeSlot(acyc)] = [IdleCycle(NoLast) EXCEPT !.pc = "query"]]
          /\ lastTick' = [lastTick EXCEPT !.analysis = "started"]
  /\ UNCHANGED <<call, store, analyses, simLogs, isSimulating, scyc, env>>

\* mutant: the latch is reset at the end of the try block, not in a finally
EndAnalysis_ResetInTry(s, last) ==
  /\ acyc' = [acyc EXCEPT ![s] = [@ EXCEPT !.pc = "idle", !.last = last]]
  /\ isAnalyzing' = last.cycleCatch

\* `finally { this.isAnalyzing = false }` at the end of a cycle
EndAnalysis(s, last) ==
  /\ acyc' = [acyc EXCEPT ![s] = [@ EXCEPT !.pc = "idle", !.last = last]]
  /\ isAnalyzing' = FALSE

Settled(tasks) == Cardinality({k \in DOMAIN tasks : tasks[k].pc \in {"done", "failed"}})
Failures(tasks) == Cardinality({k \in DOMAIN tasks : tasks[k].pc = "failed"})

\* getTokensRequiringReanalysis answers: the cycle ends (nothing to do, or the
\* query threw), or the first batch starts
AnalysisQuery(s) ==
  /\ acyc[s].pc = "query"
  /\ \/ /\ UseFault
        /\ EndAnalysis(s, [NoLast EXCEPT !.ended = TRUE, !.queryFailed = TRUE,
                                         !.cycleCatch = TRUE])
     \/ /\ getTokensRequiringReanalysis = <<>>
        /\ EndAnalysis(s, [NoLast EXCEPT !.ended = TRUE])
        /\ UNCHANGED env
     \/ /\ getTokensRequiringReanalysis # <<>>
        /\ \E tokens \in {getTokensRequiringReanalysis} :
             \E faults \in [1..Min(BatchSize, Len(tokens)) -> FaultKinds] :
               /\ FaultCount(faults) <= env.faultsLeft
               /\ env' = [env EXCEPT !.faultsLeft = @ - FaultCount(faults)]
               /\ \E tasks \in {StartBatch(tokens, 1, faults)} :
                    acyc' = [acyc EXCEPT ![s] = [@ EXCEPT !.pc = "batch", !.tokens = tokens,
                                                         !.i = 1, !.tasks = tasks,
                                                         !.last.listLen = Len(tokens)]]
        /\ UNCHANGED isAnalyzing
  /\ UNCHANGED <<call, store, analyses, simLogs, isSimulating, scyc, ticks, lastTick>>

\* updateToken of one analysis answers
TaskUpdate(s, k) ==
  /\ k \in DOMAIN acyc[s].tasks
  /\ acyc[s].tasks[k].pc = "update"
  /\ \/ /\ UseFault
        /\ acyc' = [acyc EXCEPT ![s].tasks[k].pc = "failed",
                                ![s].tasks[k].failedAt = "update"]
        /\ UNCHANGED store
     \/ /\ store' = updateToken(acyc[s].tasks[k].mint, acyc[s].tasks[k].patch)
        /\ acyc' = [acyc EXCEPT ![s].tasks[k].pc = "save"]
        /\ UNCHANGED env
  /\ UNCHANGED <<call, analyses, simLogs, isAnalyzing, isSimulating, scyc, ticks, lastTick>>

\* saveRiskAnalysis of one analysis answers
TaskSave(s, k) ==
  /\ k \in DOMAIN acyc[s].tasks
  /\ acyc[s].tasks[k].pc = "save"
  /\ \/ /\ UseFault
        /\ acyc' = [acyc EXCEPT ![s].tasks[k].pc = "failed",
                                ![s].tasks[k].failedAt = "save"]
        /\ UNCHANGED analyses
     \/ /\ LET task == acyc[s].tasks[k]
           IN analyses' = [analyses EXCEPT ![task.mint] =
                             Append(@, [overallRiskScore |-> task.patch.riskScore,
                                        riskLevel |-> task.patch.riskLevel,
                                        isReanalysis |-> task.before.analysisCount > 0,
                                        previousRiskScore |-> task.before.riskScore])]
        /\ acyc' = [acyc EXCEPT ![s].tasks[k].pc = "done"]
        /\ UNCHANGED env
  /\ UNCHANGED <<call, store, simLogs, isAnalyzing, isSimulating, scyc, ticks, lastTick>>

\* mutant: the first promise to resolve ends the wait (Promise.race)
PromiseAllResolved_First(settle) == \E k \in DOMAIN settle : settle[k] = "resolved"

\* Promise.all resolves once every promise of the batch has resolved
PromiseAllResolved(settle) == \A k \in DOMAIN settle : settle[k] = "resolved"

\* `await Promise.all(batch.map(...))` settles: it rejects with the first rejection,
\* which the cycle's catch takes, and resolves once every promise has resolved
AnalysisBatchDone(s) ==
  /\ acyc[s].pc = "batch"
  /\ LET tasks == acyc[s].tasks
         settle == [k \in DOMAIN tasks |-> analyzeTokenSafely(tasks[k].pc)]
         last == [acyc[s].last EXCEPT !.settled = @ + Settled(tasks),
                                      !.failures = @ + Failures(tasks)]
     IN \/ /\ \E k \in DOMAIN tasks : settle[k] = "rejected"
           /\ EndAnalysis(s, [last EXCEPT !.ended = TRUE, !.cycleCatch = TRUE])
        \/ /\ PromiseAllResolved(settle)
           /\ acyc' = [acyc EXCEPT ![s].pc = "delay", ![s].last = last]
           /\ UNCHANGED isAnalyzing
  /\ UNCHANGED <<call, store, analyses, simLogs, isSimulating, scyc, ticks, lastTick, env>>

\* `await this.delay(1000)` is over: the next batch starts, or the cycle ends
AnalysisDelayDone(s) ==
  /\ acyc[s].pc = "delay"
  /\ LET next == acyc[s].i + BatchSize
         tokens == acyc[s].tokens
     IN IF next <= Len(tokens)
        THEN \E faults \in [1..Min(BatchSize, Len(tokens) - next + 1) -> FaultKinds] :
               /\ FaultCount(faults) <= env.faultsLeft
               /\ env' = [env EXCEPT !.faultsLeft = @ - FaultCount(faults)]
               /\ \E tasks \in {StartBatch(tokens, next, faults)} :
                    acyc' = [acyc EXCEPT ![s].pc = "batch", ![s].i = next,
                                         ![s].tasks = tasks]
               /\ UNCHANGED isAnalyzing
        ELSE /\ EndAnalysis(s, [acyc[s].last EXCEPT !.ended = TRUE])
             /\ UNCHANGED env
  /\ UNCHANGED <<call, store, analyses, simLogs, isSimulating, scyc, ticks, lastTick>>

\* an hour passes: every token's lastAnalyzedAt falls behind the re-analysis cutoff
HourPasses ==
  /\ \E m \in Mints : ~store[m].stale
  /\ store' = [m \in Mints |-> [store[m] EXCEPT !.stale = TRUE]]
  /\ UNCHANGED <<call, analyses, simLogs, isAnalyzing, isSimulating, acyc, scyc,
                 ticks, lastTick, env>>

\* the cron timer of runSimulationsScheduled fires
SimulationTick ==
  /\ "simulation" \in env.armed
  /\ ticks.simulation < env.maxTicks
  /\ ticks' = [ticks EXCEPT !.simulation = @ + 1]
  /\ IF SimulationLatchBlocks
     THEN /\ lastTick' = [lastTick EXCEPT !.simulation = "skipped"]
          /\ UNCHANGED <<isSimulating, scyc>>
     ELSE /\ \E s \in Slots : scyc[s].pc = "idle"
          /\ isSimulating' = TRUE
          /\ scyc' = [scyc EXCEPT ![FreeSlot(scyc)] = [IdleCycle(NoLast) EXCEPT !.pc = "query"]]
          /\ lastTick' = [lastTick EXCEPT !.simulation = "started"]
  /\ UNCHANGED <<call, store, analyses, simLogs, isAnalyzing, acyc, env>>

\* `finally { this.isSimulating = false }` at the end of a cycle
EndSimulation(s, last) ==
  /\ scyc' = [scyc EXCEPT ![s] = [@ EXCEPT !.pc = "idle", !.last = last]]
  /\ isSimulating' = FALSE

\* getTokensByRiskLevel answers: the cycle ends (no token, or the query threw), or
\* simulateTokenResponse of the first token runs up to its saveSimulationLog
SimulationQuery(s) ==
  /\ scyc[s].pc = "query"
  /\ \/ /\ UseFault
        /\ EndSimulation(s, [NoLast EXCEPT !.ended = TRUE, !.queryFailed = TRUE,
                                           !.cycleCatch = TRUE])
     \/ /\ getTokensByRiskLevel("medium", SimulationLimit) = <<>>
        /\ EndSimulation(s, [NoLast EXCEPT !.ended = TRUE])
        /\ UNCHANGED env
     \/ /\ getTokensByRiskLevel("medium", SimulationLimit) # <<>>
        /\ \E tokens \in {getTokensByRiskLevel("medium", SimulationLimit)} :
             scyc' = [scyc EXCEPT ![s] = [@ EXCEPT !.pc = "save", !.tokens = tokens, !.i = 1,
                                                    !.last.listLen = Len(tokens)]]
        /\ UNCHANGED <<isSimulating, env>>
  /\ UNCHANGED <<call, store, analyses, simLogs, isAnalyzing, acyc, ticks, lastTick>>

\* SimulationService.simulateTokenResponse: the log entry it saves
simulateTokenResponse(entry) ==
  LET decision == simulateResponse(entry.doc, getCurrentMarketConditions,
                                   getSimulationProfiles["moderate"])
  IN [riskScore |-> entry.doc.riskScore, riskLevel |-> entry.doc.riskLevel,
      action |-> decision.action, wouldInvest |-> decision.wouldInvest,
      analysed |-> analyses[entry.mint] # <<>>]

\* saveSimulationLog of the current token answers; the loop goes on to the next
\* token, or the cycle ends
SimulationSave(s) ==
  /\ scyc[s].pc = "save"
  /\ LET entry == scyc[s].tokens[scyc[s].i]
     IN \E threw \in BOOLEAN :
          /\ IF threw THEN /\ UseFault
                           /\ UNCHANGED simLogs
                      ELSE /\ simLogs' = [simLogs EXCEPT ![entry.mint] =
                                            Append(@, simulateTokenResponse(entry))]
                           /\ UNCHANGED env
          /\ LET last == [scyc[s].last EXCEPT !.settled = @ + 1,
                                              !.failures = @ + (IF threw THEN 1 ELSE 0)]
             IN IF SimulationThrowPropagates(threw)
                THEN EndSimulation(s, [last EXCEPT !.ended = TRUE, !.cycleCatch = TRUE])
                ELSE IF scyc[s].i < Len(scyc[s].tokens)
                     THEN /\ scyc' = [scyc EXCEPT ![s].i = @ + 1, ![s].last = last]
                          /\ UNCHANGED isSimulating
                     ELSE EndSimulation(s, [last EXCEPT !.ended = TRUE])
  /\ UNCHANGED <<call, store, analyses, isAnalyzing, acyc, ticks, lastTick>>

\* the state after start-up with n tokens discovered more than an hour ago
InitWith(n, armed, maxTicks, maxFaults) ==
  /\ call = None
  /\ store = [m \in 1..n |-> TokenKind(m)]
  /\ analyses = [m \in 1..n |-> <<>>]
  /\ simLogs = [m \in 1..n |-> <<>>]
  /\ isAnalyzing = FALSE
  /\ isSimulating = FALSE
  /\ acyc = [s \in Slots |-> IdleCycle(NoLast)]
  /\ scyc = [s \in Slots |-> IdleCycle(NoLast)]
  /\ ticks = [analysis |-> 0, simulation |-> 0]
  /\ lastTick = [analysis |-> "none", simulation |-> "none"]
  /\ env = [armed |-> armed, maxTicks |-> maxTicks, faultsLeft |-> maxFaults]

Init == InitWith(MaxTokens, {"analysis", "simulation"}, MaxTicks, MaxFaults)

\* more tokens than one batch holds, one of the two timers armed
BatchInit == \E timer \in {"analysis", "simulation"} : InitWith(BatchTokens, {timer}, BatchTicks, BatchFaults)

Next ==
  \/ AnalysisTick
  \/ \E s \in Slots : AnalysisQuery(s)
  \/ \E s \in Slots : \E k \in 1..BatchSize : TaskUpdate(s, k)
  \/ \E s \in Slots : \E k \in 1..BatchSize : TaskSave(s, k)
  \/ \E s \in Slots : AnalysisBatchDone(s)
  \/ \E s \in Slots : AnalysisDelayDone(s)
  \/ SimulationTick
  \/ \E s \in Slots : SimulationQuery(s)
  \/ \E s \in Slots : SimulationSave(s)
  \/ HourPasses

Spec == Init /\ [][Next]_vars

BatchSpec == BatchInit /\ [][Next]_vars

\* the awaited calls of a running cycle (database calls, the delay timer) settle
AnalysisStep ==
  \/ \E s \in Slots : AnalysisQuery(s)
  \/ \E s \in Slots : \E k \in 1..BatchSize : TaskUpdate(s, k)
  \/ \E s \in Slots : \E k \in 1..BatchSize : TaskSave(s, k)
  \/ \E s \in Slots : AnalysisBatchDone(s)
  \/ \E s \in Slots : AnalysisDelayDone(s)

SimulationStep ==
  \/ \E s \in Slots : SimulationQuery(s)
  \/ \E s \in Slots : SimulationSave(s)

\* both timers armed, one token in the store
LiveInit == InitWith(LiveTokens, {"analysis", "simulation"}, MaxTicks, LiveFaults)

FairSpec ==
  LiveInit /\ [][Next]_vars /\ WF_vars(AnalysisStep) /\ WF_vars(SimulationStep)

(***************************************************************************)
(* StarveSpec: the analysis timer fires for ever over a store with more    *)
(* stale tokens than one query returns; the analyses of some tokens fail   *)
(* every time (the liquidity or the holder analyzer throws on their data)  *)
(***************************************************************************)
\* one token more than getTokensRequiringReanalysis returns
StarveTokens == ReanalysisLimit + 1

\* how many times a token is analysed before the hours stop passing
MaxRounds == 2

\* the tokens whose analysis fails every time: none, the first 49, the first 50
FailingSets == {{}, 1..(ReanalysisLimit - 1), 1..ReanalysisLimit}

StarveInit ==
  /\ \E failing \in FailingSets : call = [kind |-> "failing", mints |-> failing]
  /\ store = [m \in 1..StarveTokens |-> TokenKind(m)]
  /\ analyses = [m \in 1..StarveTokens |-> <<>>]
  /\ simLogs = [m \in 1..StarveTokens |-> <<>>]
  /\ isAnalyzing = FALSE
  /\ isSimulating = FALSE
  /\ acyc = [s \in Slots |-> IdleCycle(NoLast)]
  /\ scyc = [s \in Slots |-> IdleCycle(NoLast)]
  /\ ticks = [analysis |-> 0, simulation |-> 0]
  /\ lastTick = [analysis |-> "none", simulation |-> "none"]
  /\ env = [armed |-> {"analysis"}, maxTicks |-> 0, faultsLeft |-> 0]

\* the analyzer that throws for each token of the batch tokens[i .. i + batchSize - 1]
FailingFaults(tokens, i) ==
  [k \in 1..Min(BatchSize, Len(tokens) - i + 1) |->
     IF tokens[i + k - 1].mint \in call.mints THEN "other" ELSE "none"]

\* the cron timer of analyzeTokensScheduled fires, any number of times
AnalysisTickForEver ==
  /\ "analysis" \in env.armed
  /\ IF AnalysisLatchBlocks
     THEN /\ lastTick' = [lastTick EXCEPT !.analysis = "skipped"]
          /\ UNCHANGED <<isAnalyzing, acyc>>
     ELSE /\ \E s \in Slots : acyc[s].pc = "idle"
          /\ isAnalyzing' = TRUE
          /\ acyc' = [acyc EXCEPT ![FreeSlot(acyc)] = [IdleCycle(NoLast) EXCEPT !.pc = "query"]]
          /\ lastTick' = [lastTick EXCEPT !.analysis = "started"]
  /\ UNCHANGED <<call, store, analyses, simLogs, isSimulating, scyc, env, ticks>>

\* getTokensRequiringReanalysis answers: the cycle ends, or the first batch starts
AnalysisQueryFailing(s) ==
  /\ acyc[s].pc = "query"
  /\ \/ /\ getTokensRequiringReanalysis = <<>>
        /\ EndAnalysis(s, [NoLast EXCEPT !.ended = TRUE])
     \/ /\ getTokensRequiringReanalysis # <<>>
        /\ \E tokens \in {getTokensRequiringReanalysis} :
             \E tasks \in {StartBatch(tokens, 1, FailingFaults(tokens, 1))} :
               acyc' = [acyc EXCEPT ![s] = [@ EXCEPT !.pc = "batch", !.tokens = tokens,
                                                    !.i = 1, !.tasks = tasks,
                                                    !.last.listLen = Len(tokens)]]
        /\ UNCHANGED isAnalyzing
  /\ UNCHANGED <<call, store, analyses, simLogs, isSimulating, scyc, ticks, lastTick, env>>

\* `await this.delay(1000)` is over: the next batch starts, or the cycle ends
AnalysisDelayDoneFailing(s) ==
  /\ acyc[s].pc = "delay"
  /\ LET next == acyc[s].i + BatchSize
         tokens == acyc[s].tokens
     IN IF next <= Len(tokens)
        THEN /\ \E tasks \in {StartBatch(tokens, next, FailingFaults(tokens, next))} :
                  acyc' = [acyc EXCEPT ![s].pc = "batch", ![s].i = next, ![s].tasks = tasks]
             /\ UNCHANGED isAnalyzing
        ELSE EndAnalysis(s, [acyc[s].last EXCEPT !.ended = TRUE])
  /\ UNCHANGED <<call, store, analyses, simLogs, isSimulating, scyc, ticks, lastTick, env>>

\* an hour after every token has been analysed, all of them are stale again
HourPassesIdle ==
  /\ \A m \in Mints : ~store[m].stale /\ store[m].analysisCount < MaxRounds
  /\ store' = [m \in Mints |-> [store[m] EXCEPT !.stale = TRUE]]
  /\ UNCHANGED <<call, analyses, simLogs, isAnalyzing, isSimulating, acyc, scyc,
                 ticks, lastTick, env>>

StarveAnalysisStep ==
  \/ \E s \in Slots : AnalysisQueryFailing(s)
  \/ \E s \in Slots : \E k \in 1..BatchSize : TaskUpdate(s, k)
  \/ \E s \in Slots : \E k \in 1..BatchSize : TaskSave(s, k)
  \/ \E s \in Slots : AnalysisBatchDone(s)
  \/ \E s \in Slots : AnalysisDelayDoneFailing(s)

StarveNext == AnalysisTickForEver \/ StarveAnalysisStep \/ HourPassesIdle

\* the timer keeps firing and every pending database call and delay ends
StarveSpec ==
  StarveInit /\ [][StarveNext]_vars
  /\ WF_vars(AnalysisTickForEver) /\ WF_vars(StarveAnalysisStep)

(***************************************************************************)
(* PipelineSpec: one token is analysed, stored and then simulated          *)
(***************************************************************************)
\* the fields the two scenarios leave open
OpenFields ==
  [soc : SocialStates, lpPercentage : {30, 80}, ageHours : {0, 1000},
   volume24hUSD : {0, 20}, devWalletPercentage : {0, 25}, hasBlacklist : BOOLEAN]

WithOpenFields(token, f) ==
  [token EXCEPT !.description = f.soc[1], !.image = f.soc[2], !.website = f.soc[2],
                !.twitter = f.soc[2], !.telegram = f.soc[2],
                !.lpPercentage = f.lpPercentage, !.ageHours = f.ageHours,
                !.volume24hUSD = f.volume24hUSD, !.marketCapUSD = 1000,
                !.devWalletPercentage = f.devWalletPercentage,
                !.hasBlacklist = f.hasBlacklist]

\* mintAuthority = null, freezeAuthority = null, 50000 USD of liquidity, LP locked,
\* 500 holders, top holders at 10%
DeepLockedTokens ==
  {WithOpenFields([BaseToken EXCEPT !.totalLiquidityUSD = 500, !.lpTokensLocked = TRUE,
                                    !.hasUnlockTime = lock[2], !.daysToUnlock = lock[3],
                                    !.totalHolders = 500, !.topHoldersConcentration = 10], f) :
     f \in OpenFields, lock \in {l \in LockStates : l[1]}}

\* 300 USD of liquidity, LP not locked, 5 holders
ThinUnlockedTokens ==
  {WithOpenFields([BaseToken EXCEPT !.totalLiquidityUSD = 3, !.totalHolders = 5,
                                    !.hasUnlimitedMinting = mint,
                                    !.hasRugPullRisk = mint,
                                    !.ownershipRenounced = ~mint,
                                    !.hasPausableFunctionality = pause], f) :
     f \in OpenFields, mint \in BOOLEAN, pause \in BOOLEAN}

\* the token document after RiskAnalysisService.analyzeToken went through
AnalyzedToken(token) ==
  LET patch == StartAnalyzeToken([mint |-> 1, doc |-> token], "none").patch
  IN [token EXCEPT !.riskScore = patch.riskScore, !.riskLevel = patch.riskLevel,
                   !.analysisCount = patch.analysisCount,
                   !.isHoneypot = patch.isHoneypot,
                   !.hasRugPullRisk = patch.hasRugPullRisk, !.stale = FALSE]

CallPipeline ==
  /\ call = None
  /\ \E token \in DeepLockedTokens \cup ThinUnlockedTokens, p \in ProfileNames :
       LET honeypotAnalysis == HoneypotAnalyzeToken(token, FALSE)
           rugpullAnalysis == RugpullAnalyzeToken(token, FALSE)
           analyzed == AnalyzedToken(token)
       IN call' = [kind |-> "pipeline", token |-> token, profile |-> p,
                   honeypotAnalysis |-> honeypotAnalysis,
                   rugpullAnalysis |-> rugpullAnalysis,
                   assessment |-> calculateRiskScore(token, honeypotAnalysis,
                                                     rugpullAnalysis, DefaultConfig),
                   analyzed |-> analyzed,
                   decision |-> simulateResponse(analyzed, getCurrentMarketConditions,
                                                 getSimulationProfiles[p])]
  /\ UNCHANGED SchedulerVars

PipeNext == CallPipeline \/ Return

PipelineSpec == PInit /\ [][PipeNext]_vars

(***************************************************************************)
(* DepthSpec: the aggregator scores one token at two liquidity depths      *)
(***************************************************************************)
\* liquidity depths around the bands of calculateLiquidityRisk, in units of 100 USD
LiquidityDepths == {0, 1, 9, 10, 11, 49, 50, 51, 99, 100, 101, MaxLiquidityUSD}

\* the tokens whose depth is varied: the other inputs of calculateLiquidityRisk and
\* the fields the analyzers read
DepthTokens ==
  {[BaseToken EXCEPT !.lpTokensLocked = locked, !.lpPercentage = share,
                     !.totalHolders = holders, !.volume24hUSD = volume] :
     locked \in BOOLEAN, share \in {0, 49, 50, 80}, holders \in {5, MaxHolders},
     volume \in {0, 20}}

\* componentScores.liquidity of the RiskAssessment of the token at the given depth
LiquidityComponent(token, depth) ==
  LET t == [token EXCEPT !.totalLiquidityUSD = depth]
      a == AnalyzerOutputs(t, "none")
  IN calculateRiskScore(t, a.honeypotAnalysis, a.rugpullAnalysis,
                        DefaultConfig).componentScores.liquidity

CallLiquidityPair ==
  /\ call = None
  /\ \E token \in DepthTokens, shallow \in LiquidityDepths, deep \in LiquidityDepths :
       call' = [kind |-> "liquidityPair", token |-> token,
                shallow |-> shallow, deep |-> deep,
                shallowScore |-> LiquidityComponent(token, shallow),
                deepScore |-> LiquidityComponent(token, deep)]
  /\ UNCHANGED SchedulerVars

DepthNext == CallLiquidityPair \/ Return

DepthSpec == PInit /\ [][DepthNext]_vars

(***************************************************************************)
(* RiskPairSpec: the simulator decides on one token at two risk scores     *)
(***************************************************************************)
\* the tokens whose stored riskScore is varied
RiskPairTokens ==
  {t \in SimTokens : t.riskScore = BaseToken.riskScore /\ t.totalHolders \in {49, MaxHolders}}

CallRiskScorePair ==
  /\ call = None
  /\ \E token \in RiskPairTokens, lower \in RiskScores, higher \in RiskScores,
        p \in ProfileNames :
       call' = [kind |-> "riskScorePair", token |-> token, profile |-> p,
                lower |-> lower, higher |-> higher,
                lowerDecision |-> simulateResponse([token EXCEPT !.riskScore = lower],
                                                   getCurrentMarketConditions,
                                                   getSimulationProfiles[p]),
                higherDecision |-> simulateResponse([token EXCEPT !.riskScore = higher],
                                                    getCurrentMarketConditions,
                                                    getSimulationProfiles[p])]
  /\ UNCHANGED SchedulerVars

RiskPairNext == CallRiskScorePair \/ Return

RiskPairSpec == PInit /\ [][RiskPairNext]_vars

(***************************************************************************)
(* BacktestSpec: the statistics of the backtesting engine                  *)
(***************************************************************************)
\* the decisions makeInvestmentDecision produces: <<action, wouldInvest, maxInvestmentUSD>>
DecisionShapes ==
  {<<"avoid", FALSE, 0>>, <<"flag", FALSE, 0>>, <<"monitor", TRUE, 2>>,
   <<"investigate", TRUE, 1>>, <<"monitor", FALSE, 1>>}

TradeLogs ==
  {[day |-> 1, action |-> d[1], wouldInvest |-> d[2], maxInvestmentUSD |-> d[3],
    hasMax |-> d[3] # 0, riskScore |-> r] : d \in DecisionShapes, r \in {100, 200}}

TradeLogSeqs ==
  {<<>>} \cup {<<a>> : a \in TradeLogs}
         \cup (IF MaxLogs >= 2 THEN {<<a, b>> : a \in TradeLogs, b \in TradeLogs} ELSE {})
         \cup (IF MaxLogs >= 3 THEN {<<a, a, b>> : a \in TradeLogs, b \in TradeLogs} ELSE {})

\* values of Math.random, in hundredths: <<first call, second call>>
RandomDraws == {<<0, 0>>, <<50, 50>>, <<99, 99>>}

\* runBacktest's statistics computed twice from the same logs and the same token flags
CallBacktestTwice ==
  /\ call = None
  /\ \E logs \in TradeLogSeqs, tokenFlags \in TokenFlagStates :
       \E firstDraws \in [1..Len(logs) -> RandomDraws],
          secondDraws \in [1..Len(logs) -> RandomDraws] :
         call' = [kind |-> "backtestTwice", logs |-> logs, tokenFlags |-> tokenFlags,
                  first |-> BacktestStatistics(logs, tokenFlags, firstDraws),
                  second |-> BacktestStatistics(logs, tokenFlags, secondDraws)]
  /\ UNCHANGED SchedulerVars

MaxReturns == 3
ReturnValues == {-2, -1, 0, 1, 3}
ReturnSeqs == UNION {[1..n -> ReturnValues] : n \in 0..MaxReturns}

CallCalculateMaxDrawdown ==
  /\ call = None
  /\ \E returns \in ReturnSeqs :
       call' = [kind |-> "calculateMaxDrawdown", returns |-> returns,
                maxDrawdown |-> calculateMaxDrawdown(returns)]
  /\ UNCHANGED SchedulerVars

\* the day analyzeDecisionAccuracy runs, and the days the persisted logs were written:
\* inside and outside the trailing window
Today == 40
AccuracyLogDays == {1, 35}
AccuracyLogs ==
  {[day |-> day, action |-> d[1], wouldInvest |-> d[2]] :
     day \in AccuracyLogDays, d \in DecisionShapes}
AccuracyLogSeqs ==
  {<<>>} \cup {<<a>> : a \in AccuracyLogs}
         \cup (IF MaxLogs >= 2 THEN {<<a, b>> : a \in AccuracyLogs, b \in AccuracyLogs}
                ELSE {})
         \cup (IF MaxLogs >= 3 THEN {<<a, a, b>> : a \in AccuracyLogs, b \in AccuracyLogs}
                ELSE {})

CallAnalyzeDecisionAccuracy ==
  /\ call = None
  /\ \E persisted \in AccuracyLogSeqs, tokenFlags \in TokenFlagStates :
       call' = [kind |-> "analyzeDecisionAccuracy", persisted |-> persisted,
                today |-> Today, tokenFlags |-> tokenFlags,
                result |-> analyzeDecisionAccuracy(persisted, Today, tokenFlags)]
  /\ UNCHANGED SchedulerVars

BNext ==
  \/ CallBacktestTwice \/ CallCalculateMaxDrawdown \/ CallAnalyzeDecisionAccuracy
  \/ Return

BacktestSpec == PInit /\ [][BNext]_vars

(***************************************************************************)
(* OverlapSpec: analyzeToken runs of one token that overlap                *)
(* Run 1 belongs to the scheduled cycle, the other runs are manual         *)
(* analyses (DashboardService.analyzeToken), which take no latch.          *)
(***************************************************************************)
MaxRuns == 3
Runs == 1..MaxRuns
TheMint == 1

IdleRun == [pc |-> "idle", patch |-> None, before |-> None, analysisTimestamp |-> 0]

\* totalLiquidityUSD as a refresh of the token data finds it
RefreshedLiquidity == {5, 500}

OInit ==
  /\ call = [kind |-> "runs", runs |-> [r \in Runs |-> IdleRun], clock |-> 1,
             refreshed |-> FALSE]
  /\ store = [m \in {TheMint} |-> TokenKind(m)]
  /\ analyses = [m \in {TheMint} |-> <<>>]
  /\ simLogs = [m \in {TheMint} |-> <<>>]
  /\ isAnalyzing = FALSE /\ isSimulating = FALSE
  /\ acyc = <<>> /\ scyc = <<>>
  /\ ticks = [analysis |-> 0, simulation |-> 0]
  /\ lastTick = [analysis |-> "none", simulation |-> "none"]
  /\ env = [armed |-> {}, maxTicks |-> 0, faultsLeft |-> 0]

OverlapUnchanged == <<simLogs, isAnalyzing, isSimulating, acyc, scyc, ticks, lastTick, env>>

\* analyzeToken runs from the document it was handed up to its updateToken call
BeginRun(r, doc) ==
  LET task == StartAnalyzeToken([mint |-> TheMint, doc |-> doc], "none")
  IN call' = [call EXCEPT !.runs[r] = [pc |-> "update", patch |-> task.patch,
                                       before |-> task.before, analysisTimestamp |-> 0]]

\* the scheduled cycle reaches the token: it was in the list of
\* getTokensRequiringReanalysis, and analyzeTokenSafely(token) starts
ScheduledAnalyze ==
  /\ call.runs[1].pc = "idle"
  /\ store[TheMint].stale /\ store[TheMint].isActive
  /\ BeginRun(1, store[TheMint])
  /\ UNCHANGED <<store, analyses>>
  /\ UNCHANGED OverlapUnchanged

\* DashboardService.analyzeToken: getToken, then RiskAnalysisService.analyzeToken
ManualAnalyze(r) ==
  /\ r # 1
  /\ call.runs[r].pc = "idle"
  /\ BeginRun(r, store[TheMint])
  /\ UNCHANGED <<store, analyses>>
  /\ UNCHANGED OverlapUnchanged

\* the database applies the findOneAndUpdate of a run
UpdateApplied(r) ==
  /\ call.runs[r].pc = "update"
  /\ store' = updateToken(TheMint, call.runs[r].patch)
  /\ call' = [call EXCEPT !.runs[r].pc = "updated"]
  /\ UNCHANGED analyses
  /\ UNCHANGED OverlapUnchanged

\* `await updateToken(...)` resumes: the argument of saveRiskAnalysis is built, with
\* analysisTimestamp: new Date(), and the save is sent
UpdateAnswered(r) ==
  /\ call.runs[r].pc = "updated"
  /\ call' = [call EXCEPT !.runs[r].pc = "save",
                          !.runs[r].analysisTimestamp = call.clock,
                          !.clock = @ + 1]
  /\ UNCHANGED <<store, analyses>>
  /\ UNCHANGED OverlapUnchanged

\* the database stores the RiskAnalysis record, and the run is over
SaveApplied(r) ==
  /\ call.runs[r].pc = "save"
  /\ LET run == call.runs[r]
     IN analyses' = [analyses EXCEPT ![TheMint] =
                       Append(@, [analysisTimestamp |-> run.analysisTimestamp,
                                  overallRiskScore |-> run.patch.riskScore,
                                  riskLevel |-> run.patch.riskLevel,
                                  isReanalysis |-> run.before.analysisCount > 0,
                                  previousRiskScore |-> run.before.riskScore])]
  /\ call' = [call EXCEPT !.runs[r].pc = "done"]
  /\ UNCHANGED store
  /\ UNCHANGED OverlapUnchanged

\* TokenMonitorService.refreshTokenData: new market data is written to the token,
\* and updateToken stamps lastAnalyzedAt
RefreshTokenData ==
  /\ ~call.refreshed
  /\ \E l \in RefreshedLiquidity :
       store' = [store EXCEPT ![TheMint].totalLiquidityUSD = l,
                              ![TheMint].lpTokensLocked = FALSE,
                              ![TheMint].stale = FALSE]
  /\ call' = [call EXCEPT !.refreshed = TRUE]
  /\ UNCHANGED analyses
  /\ UNCHANGED OverlapUnchanged

ONext ==
  \/ ScheduledAnalyze
  \/ \E r \in Runs : ManualAnalyze(r)
  \/ \E r \in Runs : UpdateApplied(r)
  \/ \E r \in Runs : UpdateAnswered(r)
  \/ \E r \in Runs : SaveApplied(r)
  \/ RefreshTokenData

OverlapSpec == OInit /\ [][ONext]_vars

\* DatabaseService.getLatestAnalysis: the record with the latest analysisTimestamp
getLatestAnalysis(mint) ==
  CHOOSE a \in {analyses[mint][k] : k \in 1..Len(analyses[mint])} :
    \A k \in 1..Len(analyses[mint]) : analyses[mint][k].analysisTimestamp <= a.analysisTimestamp

(***************************************************************************)
(* Claims about the pure functions (checked under PureSpec)                *)
(***************************************************************************)
IsSim == call.kind = "simulateResponse"
IsAgg == call.kind = "calculateRiskScore"
IsCat == call.kind = "categorizeRiskLevel"
IsBacktest == call.kind = "runBacktest"

\* the sizing rule of the specification, on the token's stored riskScore:
\* base = maxInvestmentUSD * multiplier, amount = clamp(base*(1-r)*min(1, L/50000), 0, 0.05*L)
SpecBase(parameters) ==
  CASE parameters.riskTolerance = "conservative" -> (parameters.maxInvestmentUSD * 3) \div 10
    [] parameters.riskTolerance = "moderate" -> (parameters.maxInvestmentUSD * 6) \div 10
    [] parameters.riskTolerance = "aggressive" -> parameters.maxInvestmentUSD

SpecAmountN(token, parameters) ==
  LET adjusted == SpecBase(parameters) * (400 - token.riskScore)
                  * (IF token.totalLiquidityUSD >= 500 THEN 500 ELSE token.totalLiquidityUSD)
      cap == token.totalLiquidityUSD * 5 * MoneyDen
      low == IF adjusted < cap THEN adjusted ELSE cap
  IN IF low < 0 THEN 0 ELSE low

\* the ordered rule list of the specification: <<action, wouldInvest>> of the first match
SpecRule(token, parameters) ==
  IF token.isHoneypot THEN <<"avoid", FALSE>>
  ELSE IF token.riskScore >= 320 THEN <<"avoid", FALSE>>
  ELSE IF token.riskScore >= parameters.maxRiskScore THEN <<"flag", FALSE>>
  ELSE IF token.totalLiquidityUSD < parameters.minLiquidityUSD THEN <<"avoid", FALSE>>
  ELSE IF parameters.requireLPLocked /\ ~token.lpTokensLocked THEN <<"avoid", FALSE>>
  ELSE IF token.totalHolders < parameters.minHolders THEN <<"investigate", FALSE>>
  ELSE IF SpecAmountN(token, parameters) * 2 >= SpecBase(parameters) * MoneyDen
       THEN <<"monitor", TRUE>>
  ELSE IF SpecAmountN(token, parameters) * 5 >= SpecBase(parameters) * MoneyDen
       THEN <<"investigate", TRUE>>
  ELSE <<"monitor", FALSE>>

\* C4: for every token, market and profile, simulateResponse returns the action and
\* wouldInvest of the first matching rule of the ordered list (honeypot, riskScore >= 0.8,
\* riskScore >= maxRiskScore, low liquidity, LP not locked, few holders, sizing)
C4_FirstMatchingRule ==
  IsSim => <<call.decision.action, call.decision.wouldInvest>>
             = SpecRule(call.token, call.parameters)

\* C5 as stated: a honeypot token gets recommendation AVOID from the aggregator and
\* action avoid, wouldInvest = false, confidence 0.95 from the simulator
C5_HoneypotAvoid095 ==
  /\ IsAgg /\ call.honeypotAnalysis.isHoneypot => call.assessment.recommendation = "AVOID"
  /\ IsSim /\ call.token.isHoneypot =>
       /\ call.decision.action = "avoid"
       /\ ~call.decision.wouldInvest
       /\ call.decision.confidence = 9500

\* the market scaling of a 0.95 confidence, in units of 1/10000
HoneypotConfidence(market) ==
  LET calm == market.volatilityIndex <= 80
  IN CASE market.overallSentiment = "neutral" -> (IF calm THEN 9500 ELSE 8550)
       [] market.overallSentiment = "bearish" -> (IF calm THEN 7600 ELSE 6840)
       [] market.overallSentiment = "bullish" -> (IF calm THEN 10000 ELSE 9405)

\* C5 (amended): a honeypot token gets recommendation AVOID from the aggregator and
\* action avoid with wouldInvest = false from the simulator; the confidence is 0.95
\* scaled by the market adjustment and capped at 1, hence 0.95 exactly when the
\* sentiment is neutral and the volatility index is at most 0.8
C5_HoneypotAvoidScaled ==
  /\ IsAgg /\ call.honeypotAnalysis.isHoneypot => call.assessment.recommendation = "AVOID"
  /\ IsSim /\ call.token.isHoneypot =>
       /\ call.decision.action = "avoid"
       /\ ~call.decision.wouldInvest
       /\ ~call.decision.hasMax
       /\ call.decision.confidence = HoneypotConfidence(call.market)

C5_Witness ==
  /\ IsSim /\ call.token.isHoneypot
  /\ call.token.riskScore = 1 /\ call.token.lpTokensLocked
  /\ call.market.overallSentiment = "bearish"
  /\ call.decision.action = "avoid"
  /\ call.decision.confidence = 7600

InUnit(x, den) == x \in 0..den

\* C6: every score and probability lies in [0,1]: the aggregator's overallRiskScore,
\* its five componentScores and its confidence, the simulator's confidence under
\* every market; and the five aggregation weights sum to 1
C6_ScoresInUnitInterval ==
  /\ weights.honeypot + weights.rugpull + weights.liquidity
       + weights.holders + weights.social = 100
  /\ IsAgg =>
       /\ InUnit(call.assessment.overallRiskScore, 400)
       /\ call.assessment.exact
       /\ InUnit(call.assessment.confidence, 200)
       /\ \A c \in {"honeypot", "rugpull", "liquidity", "holders", "social"} :
            InUnit(call.assessment.componentScores[c], 100)
  /\ IsSim => InUnit(call.decision.confidence, 10000)

\* the cap at 1 is what keeps the confidence in range here: 0.95 * 1.1 > 1
C6_Witness ==
  /\ IsSim /\ call.token.isHoneypot
  /\ call.market.overallSentiment = "bullish" /\ call.market.volatilityIndex <= 80
  /\ call.decision.confidence = 10000

\* C8: a returned maxInvestmentUSD equals
\* clamp(base*(1-riskScore)*min(1, liquidityUSD/50000), 0, 0.05*liquidityUSD) with
\* base = maxInvestmentUSD * multiplier (0.3 / 0.6 / 1.0); it is never negative,
\* never above 5% of liquidityUSD and never above base
C8_InvestmentAmount ==
  IsSim /\ call.decision.hasMax =>
    /\ call.decision.maxInvestmentN = SpecAmountN(call.token, call.parameters)
    /\ call.decision.maxInvestmentN >= 0
    /\ call.decision.maxInvestmentN <= call.token.totalLiquidityUSD * 5 * MoneyDen
    /\ call.decision.maxInvestmentN <= SpecBase(call.parameters) * MoneyDen

\* a sized decision on a pool deeper than 50000 USD, where min(1, L/50000) cuts
C8_Witness ==
  /\ IsSim /\ call.decision.hasMax /\ call.decision.wouldInvest
  /\ call.token.totalLiquidityUSD > 500
  /\ call.decision.maxInvestmentN > 0
  /\ call.decision.maxInvestmentN < SpecBase(call.parameters) * MoneyDen

LevelRank(level) ==
  CASE level = "low" -> 0 [] level = "medium" -> 1 [] level = "high" -> 2
    [] level = "critical" -> 3

\* the step function of the specification
SpecLevel(score, config) ==
  IF score >= config.high /\ score >= 360 THEN "critical"
  ELSE IF score >= config.high THEN "high"
  ELSE IF score >= config.medium THEN "medium"
  ELSE "low"

\* C9: riskLevel is the step function of the score and the two configured thresholds
\* (high, or critical from 0.9, at HIGH_THRESHOLD; medium at MEDIUM_THRESHOLD; else
\* low), and a higher score never yields a lower riskLevel
C9_RiskLevelStep ==
  /\ IsCat =>
       /\ call.riskLevel = SpecLevel(call.riskScore, call.config)
       /\ \A higher \in call.riskScore..400 :
            LevelRank(categorizeRiskLevel(higher, call.config)) >= LevelRank(call.riskLevel)
  /\ IsAgg => call.assessment.riskLevel
                = SpecLevel(call.assessment.overallRiskScore, call.config)

\* a score of 0.925 under HIGH_THRESHOLD = 0.95: not critical, because below HIGH
C9_Witness ==
  /\ IsCat /\ call.config.high = 380 /\ call.riskScore = 370
  /\ call.riskLevel = "medium"

\* C10: recommendation is AVOID if isHoneypot or score >= 0.8; else EXTREME_CAUTION if
\* the rugpull riskLevel is critical or score >= 0.6; else MONITOR if score >= 0.3;
\* else ACCEPTABLE
C10_Recommendation ==
  IsAgg =>
    LET score == call.assessment.overallRiskScore
        rec == call.assessment.recommendation
    IN /\ (call.honeypotAnalysis.isHoneypot \/ score >= 320) => rec = "AVOID"
       /\ ~(call.honeypotAnalysis.isHoneypot \/ score >= 320) =>
            /\ (call.rugpullAnalysis.riskLevel = "critical" \/ score >= 240)
                 => rec = "EXTREME_CAUTION"
            /\ ~(call.rugpullAnalysis.riskLevel = "critical" \/ score >= 240) =>
                 /\ score >= 120 => rec = "MONITOR"
                 /\ score < 120 => rec = "ACCEPTABLE"

\* a critical rugpull level decides the recommendation although the score is below 0.6
C10_Witness ==
  /\ IsAgg /\ ~call.honeypotAnalysis.isHoneypot
  /\ call.rugpullAnalysis.riskLevel = "critical"
  /\ call.assessment.overallRiskScore < 240
  /\ call.assessment.recommendation = "EXTREME_CAUTION"

\* C7: runBacktest fails exactly when the range holds no persisted SimulationLog, and
\* otherwise returns a result whose totalSimulations is the number of logs in the range
C7_BacktestFailsOnlyOnEmptyRange ==
  IsBacktest =>
    LET n == Len(PersistedInRange(call.persisted, call.startDate, call.endDate))
    IN /\ (call.result.outcome = "error") <=> (n = 0)
       /\ n >= 1 => call.result.totalSimulations = n


(***************************************************************************)
(* Claims about the scheduled cycles                                       *)
(***************************************************************************)
ActiveCycles(cyc) == {s \in Slots : cyc[s].pc # "idle"}

AtMostOneCycleEach ==
  /\ Cardinality(ActiveCycles(acyc)) <= 1
  /\ Cardinality(ActiveCycles(scyc)) <= 1
  /\ isAnalyzing <=> ActiveCycles(acyc) # {}
  /\ isSimulating <=> ActiveCycles(scyc) # {}

TickWhileActiveIsNoOp ==
  /\ (ticks'.analysis # ticks.analysis /\ isAnalyzing)
       => UNCHANGED <<call, store, analyses, simLogs, isAnalyzing, isSimulating,
                      acyc, scyc, env>>
  /\ (ticks'.simulation # ticks.simulation /\ isSimulating)
       => UNCHANGED <<call, store, analyses, simLogs, isAnalyzing, isSimulating,
                      acyc, scyc, env>>

CycleStartsOnlyOnFreeTick ==
  /\ (\E s \in Slots : acyc[s].pc = "idle" /\ acyc'[s].pc # "idle")
       => (ticks'.analysis # ticks.analysis /\ ~isAnalyzing)
  /\ (\E s \in Slots : scyc[s].pc = "idle" /\ scyc'[s].pc # "idle")
       => (ticks'.simulation # ticks.simulation /\ ~isSimulating)

\* C1: at most one analysis cycle and at most one simulation cycle is in progress
\* at any time; a timer firing while its cycle is in progress changes nothing, and
\* no cycle starts except on a firing that found its latch clear (nothing is queued)
C1_LatchSerialisesCycles ==
  [](AtMostOneCycleEach) /\ [][TickWhileActiveIsNoOp /\ CycleStartsOnlyOnFreeTick]_vars

C1_Witness ==
  /\ lastTick.analysis = "skipped"
  /\ lastTick.simulation = "skipped"
  /\ Cardinality(ActiveCycles(acyc)) = 1
  /\ Cardinality(ActiveCycles(scyc)) = 1

CycleRanThrough(cyc) ==
  \A s \in Slots :
    (cyc[s].last.ended /\ ~cyc[s].last.queryFailed)
      => (cyc[s].last.settled = cyc[s].last.listLen /\ ~cyc[s].last.cycleCatch)

\* C2: when the token query of a cycle succeeded, the cycle ends only after every
\* token of its list has been attempted, whatever failed for single tokens, and it
\* never ends in the cycle-level catch
C2_TokenFailureDoesNotAbortCycle == CycleRanThrough(acyc) /\ CycleRanThrough(scyc)

C2_Witness ==
  \E s \in Slots :
    /\ acyc[s].pc = "batch"
    /\ acyc[s].i > BatchSize
    /\ acyc[s].last.failures >= 1
    /\ \E k \in DOMAIN acyc[s].tasks : acyc[s].tasks[k].pc = "done"

\* C3: after an analysis of a token failed, the stored riskScore, riskLevel and
\* security flags of the token are those it had before the analysis started
C3_FailedAnalysisLeavesTokenUnchanged ==
  \A s \in Slots : \A k \in DOMAIN acyc[s].tasks :
    LET task == acyc[s].tasks[k]
    IN task.pc = "failed"
         => /\ store[task.mint].riskScore = task.before.riskScore
            /\ store[task.mint].riskLevel = task.before.riskLevel
            /\ store[task.mint].isHoneypot = task.before.isHoneypot
            /\ store[task.mint].hasRugPullRisk = task.before.hasRugPullRisk


(***************************************************************************)
(* Claims about repeated invocations                                       *)
(***************************************************************************)
Repeated(fn) == call.kind = "repeat" /\ call.fn = fn /\ call.stage = "second"

C13_AllAvoidedBacktest ==
  IsBacktest =>
    LET logs == PersistedInRange(call.persisted, call.startDate, call.endDate)
    IN (/\ Len(logs) >= 1
        /\ \A i \in 1..Len(logs) : logs[i].action = "avoid"
        /\ call.tokenFlags.found
        /\ call.tokenFlags.isHoneypot \/ call.tokenFlags.hasRugPullRisk)
       => /\ call.result.outcome = "result"
          /\ call.result.counts.rugPullsAvoided + call.result.counts.honeypotsStopped
               = Len(logs)
          /\ call.result.counts.profitableTrades = 0
          /\ call.result.counts.lossTrades = 0

IsPipeline == call.kind = "pipeline"

IsDeepLocked == IsPipeline /\ call.token \in DeepLockedTokens

\* no rugpull factor left open by the scenario fires
NoOpenRugpullFactor(token) ==
  /\ ~token.hasBlacklist /\ token.devWalletPercentage <= 20
  /\ ~(token.hasUnlockTime /\ token.daysToUnlock < 30)
  /\ token.lpPercentage >= 70 /\ token.ageHours >= 168
  /\ token.description /\ token.volume24hUSD > 0

\* C14: a token with no mint and no freeze authority, 50000 USD of locked liquidity,
\* 500 holders and 10% top-holder concentration, whose other rugpull factors are all
\* quiet, is assessed isHoneypot = false, rugpull risk low and riskLevel low, and the
\* analysed token simulated with the moderate profile gives monitor with wouldInvest
C14_DeepLockedScenario ==
  (IsDeepLocked /\ NoOpenRugpullFactor(call.token) /\ call.profile = "moderate")
    => /\ ~call.honeypotAnalysis.isHoneypot
       /\ call.rugpullAnalysis.riskLevel = "low"
       /\ call.assessment.riskLevel = "low"
       /\ call.decision.action = "monitor"
       /\ call.decision.wouldInvest

IsThinUnlocked == IsPipeline /\ call.token \in ThinUnlockedTokens

ThinUnlockedOutcome ==
  /\ call.honeypotAnalysis.risk >= 60
  /\ call.rugpullAnalysis.risk >= 40
  /\ call.decision.action = "avoid"

\* C15 as stated: every token with 300 USD of liquidity, LP not locked and 5 holders
\* gets honeypot risk >= 0.6 and rugpull risk >= 0.4, and is simulated as avoid
C15_ThinUnlockedScenario == IsThinUnlocked => ThinUnlockedOutcome

\* C15 amended: the same for the tokens of the scenario with no 24h trading volume
C15_ThinUnlockedNoVolume ==
  (IsThinUnlocked /\ call.token.volume24hUSD = 0) => ThinUnlockedOutcome

C15_Witness ==
  /\ IsThinUnlocked
  /\ call.token.volume24hUSD = 0
  /\ ~call.token.hasUnlimitedMinting /\ ~call.token.hasPausableFunctionality
  /\ call.honeypotAnalysis.risk = 65
  /\ call.analyzed.isHoneypot
  /\ call.profile = "aggressive"
  /\ call.decision.action = "avoid"


(***************************************************************************)
(* Claims about failures, batches and latches in the scheduled cycles      *)
(***************************************************************************)
Tasks == {<<s, k>> \in Slots \X (1..BatchSize) : k \in DOMAIN acyc[s].tasks}

\* C16: an analysis in which the honeypot or the rugpull analyzer threw neither
\* rewrites the token (updateToken) nor saves a RiskAnalysis record
C16_AnalyzerExceptionSkipsToken ==
  \A t \in Tasks :
    LET task == acyc[t[1]].tasks[t[2]]
    IN task.fault \in {"honeypot", "rugpull"} => task.pc \notin {"save", "done"}

InFlight(s) == {k \in DOMAIN acyc[s].tasks : acyc[s].tasks[k].pc \in {"update", "save"}}

BatchStarts(s) == acyc'[s].pc = "batch" /\ (acyc[s].pc # "batch" \/ acyc'[s].i # acyc[s].i)

\* C17: a cycle never has more than 5 analyses in flight, and a batch starts only
\* when no analysis of the batch before it is still in flight
C17_BatchesOfFive ==
  /\ [](\A s \in Slots : Cardinality(InFlight(s)) <= 5 /\ Len(acyc[s].tasks) <= 5)
  /\ [][\A s \in Slots : BatchStarts(s) => (acyc[s].pc # "batch" /\ InFlight(s) = {})]_vars

C17_Witness ==
  \E s \in Slots :
    /\ acyc[s].pc = "batch"
    /\ acyc[s].i = 6
    /\ Len(acyc[s].tokens) = 6
    /\ acyc[s].last.settled = 5
    /\ InFlight(s) = {1}

FreeTickStartsCycle ==
  /\ (ticks'.analysis # ticks.analysis /\ ~isAnalyzing)
       => (isAnalyzing' /\ \E s \in Slots : acyc'[s].pc = "query")
  /\ (ticks'.simulation # ticks.simulation /\ ~isSimulating)
       => (isSimulating' /\ \E s \in Slots : scyc'[s].pc = "query")

\* C18: a set latch is eventually cleared, however the cycle ends; a latch is set
\* only while its cycle runs; and a tick that finds the latch clear starts a cycle
C18_LatchEventuallyCleared ==
  /\ isAnalyzing ~> ~isAnalyzing
  /\ isSimulating ~> ~isSimulating
  /\ [](isAnalyzing <=> \E s \in Slots : acyc[s].pc # "idle")
  /\ [](isSimulating <=> \E s \in Slots : scyc[s].pc # "idle")
  /\ [][FreeTickStartsCycle]_vars

\* a second cycle running after the first one ended in the cycle-level catch
C18_Witness ==
  /\ ticks.analysis = 2
  /\ lastTick.analysis = "started"
  /\ isAnalyzing
  /\ \E s \in Slots : acyc[s].pc = "batch" /\ acyc[s].last.listLen > 0
  /\ env.faultsLeft < LiveFaults

(***************************************************************************)
(* C19: every SimulationLog follows a RiskAnalysis of the same token       *)
(***************************************************************************)

\* C19: the scheduled simulation cycle only simulates tokens that have been analysed
\* at least once: whenever a SimulationLog of a token is saved, a RiskAnalysis record
\* of that token is already in the store, so the first SimulationLog of a token comes
\* after its first RiskAnalysis
C19_SimulationFollowsAnalysis ==
  \A m \in Mints : \A k \in 1..Len(simLogs[m]) : simLogs[m][k].analysed

(***************************************************************************)
(* C20: the liquidity component against the liquidity depth                *)
(***************************************************************************)
IsLiquidityPair == call.kind = "liquidityPair"

\* C20: increasing a token's liquidity depth while every other field stays fixed never
\* increases the liquidity componentScore of its RiskAssessment
C20_LiquidityComponentMonotone ==
  (IsLiquidityPair /\ call.shallow <= call.deep) => call.deepScore <= call.shallowScore

\* a deeper pool that crosses a band and lowers the component
C20_Witness ==
  /\ IsLiquidityPair
  /\ call.shallow < call.deep
  /\ call.deepScore < call.shallowScore
  /\ call.deepScore > 0

(***************************************************************************)
(* Claims about the backtest statistics (checked under BacktestSpec)       *)
(***************************************************************************)
IsBacktestTwice == call.kind = "backtestTwice"

\* C21: a BacktestResult is a function of the logs alone: computed twice over the same
\* SimulationLogs (and the same token flags) it has the same counts, the same returns
\* (hence successRate, avgReturn, sharpeRatio) and the same maxDrawdown
C21_BacktestRecomputable ==
  IsBacktestTwice => call.first = call.second

\* the number of logs of the backtest that satisfy P
CountLogs(P(_)) == Cardinality({i \in 1..Len(call.logs) : P(call.logs[i])})

IsAvoid(log) == log.action = "avoid"
NotAvoid(log) == log.action # "avoid"

\* C22: every log of a backtest is accounted for exactly once: an avoid log gives no
\* return and is classified under one reason from the token's current flags (honeypot
\* before rugpull, else risk management), every other log gives exactly one return, so
\* profitableTrades + lossTrades is the number of logs that are not avoid
C22_EveryLogAccountedOnce ==
  IsBacktestTwice =>
    LET r == call.first
        flags == call.tokenFlags
        honeypot == flags.found /\ flags.isHoneypot
        rugpull == flags.found /\ ~flags.isHoneypot /\ flags.hasRugPullRisk
    IN /\ r.counts.honeypotsStopped = (IF honeypot THEN CountLogs(IsAvoid) ELSE 0)
       /\ r.counts.rugPullsAvoided = (IF rugpull THEN CountLogs(IsAvoid) ELSE 0)
       /\ Len(r.returns) = CountLogs(NotAvoid)
       /\ r.counts.profitableTrades + r.counts.lossTrades = CountLogs(NotAvoid)

IsMaxDrawdown == call.kind = "calculateMaxDrawdown"

\* the cumulative sum of the first k returns
RunningSum(returns, k) == SumSeq(SubSeq(returns, 1, k))

\* the running maximum of the cumulative sums after k returns
RunningPeak(returns, k) ==
  LET sums == {RunningSum(returns, j) : j \in 1..k}
  IN CHOOSE p \in sums : \A q \in sums : q <= p

\* C23: maxDrawdown is a finite number >= 0 for every sequence of returns, and it is 0
\* when the cumulative sum of the returns never falls below its running peak
C23_MaxDrawdownFinite ==
  IsMaxDrawdown =>
    /\ ~call.maxDrawdown.inf
    /\ call.maxDrawdown.num >= 0 /\ call.maxDrawdown.den > 0
    /\ (\A k \in 1..Len(call.returns) :
          RunningSum(call.returns, k) >= RunningPeak(call.returns, k))
       => call.maxDrawdown.num = 0

(***************************************************************************)
(* C24: the primary concerns of a RiskAssessment (checked under PureSpec)  *)
(***************************************************************************)
ConcernPriority ==
  <<"HONEYPOT DETECTED", "HIGH RUGPULL RISK", "LOW LIQUIDITY", "LP NOT LOCKED",
    "HIGH HOLDER CONCENTRATION", "OWNERSHIP NOT RENOUNCED", "UNLIMITED MINTING">>

ConcernRank(c) == CHOOSE k \in 1..Len(ConcernPriority) : ConcernPriority[k] = c

\* C24: primaryConcerns has at most 5 entries, in the priority order honeypot, rugpull,
\* low liquidity, LP not locked, holder concentration, ownership, minting, and
\* LOW LIQUIDITY is among them exactly when the token's liquidity is below 5000 USD
C24_PrimaryConcerns ==
  IsAgg =>
    LET concerns == call.assessment.primaryConcerns
    IN /\ Len(concerns) <= 5
       /\ \A k \in 1..Len(concerns) : \E j \in 1..Len(ConcernPriority) :
            concerns[k] = ConcernPriority[j]
       /\ \A k \in 1..(Len(concerns) - 1) :
            ConcernRank(concerns[k]) < ConcernRank(concerns[k + 1])
       /\ (\E k \in 1..Len(concerns) : concerns[k] = "LOW LIQUIDITY")
            <=> (call.token.totalLiquidityUSD < 50)

IsAccuracy == call.kind = "analyzeDecisionAccuracy"

\* C25: analyzeDecisionAccuracy counts every SimulationLog of the trailing 30 days that
\* is an avoid or a wouldInvest decision in exactly one of its four counts, according
\* to the token's current flags; totalDecisions is their sum and the number of those
\* logs, and accuracy = (correctAvoidance + correctInvestment) / totalDecisions lies in
\* [0, 1] and is 0 when totalDecisions is 0
C25_DecisionAccuracy ==
  IsAccuracy =>
    LET recent == PersistedRecent(call.persisted, call.today, AccuracyWindowDays)
        scam == getActualTokenOutcome(call.tokenFlags).wasScam
        avoids == Cardinality({i \in 1..Len(recent) : recent[i].action = "avoid"})
        invests == Cardinality({i \in 1..Len(recent) :
                                  recent[i].action # "avoid" /\ recent[i].wouldInvest})
        r == call.result
    IN /\ r.counts.correctAvoidance = (IF scam THEN avoids ELSE 0)
       /\ r.counts.incorrectAvoidance = (IF scam THEN 0 ELSE avoids)
       /\ r.counts.correctInvestment = (IF scam THEN 0 ELSE invests)
       /\ r.counts.incorrectInvestment = (IF scam THEN invests ELSE 0)
       /\ r.totalDecisions = avoids + invests
       /\ 0 <= r.accuracyNum /\ r.accuracyNum <= r.totalDecisions
       /\ r.accuracyNum = (IF scam THEN avoids ELSE invests)

(***************************************************************************)
(* Claims about overlapping analyses of one token (OverlapSpec)            *)
(***************************************************************************)
IsRuns == call.kind = "runs"
NoRunInFlight == \A r \in Runs : call.runs[r].pc \in {"idle", "done"}
FinishedRuns == {r \in Runs : call.runs[r].pc = "done"}

\* C26: once every analyzeToken run of a token has finished, the stored riskScore and
\* riskLevel of the token are those of its RiskAnalysis record with the latest
\* analysisTimestamp
C26_StoreMatchesLatestAnalysis ==
  (IsRuns /\ NoRunInFlight /\ FinishedRuns # {})
    => /\ store[TheMint].riskScore = getLatestAnalysis(TheMint).overallRiskScore
       /\ store[TheMint].riskLevel = getLatestAnalysis(TheMint).riskLevel

\* C27: after k successful analyzeToken runs of a token, overlapping or not, its
\* analysisCount has grown by exactly k
C27_AnalysisCountCountsRuns ==
  (IsRuns /\ NoRunInFlight)
    => store[TheMint].analysisCount
         = TokenKind(TheMint).analysisCount + Cardinality(FinishedRuns)

(***************************************************************************)
(* C28: the simulator's decision against the stored riskScore              *)
(***************************************************************************)
IsRiskScorePair == call.kind = "riskScorePair"

\* maxInvestmentUSD of a decision, over MoneyDen; a decision without one invests nothing
InvestmentOf(decision) == IF decision.hasMax THEN decision.maxInvestmentN ELSE 0

\* C28: with everything else fixed, a lower stored riskScore (down to 0) never turns
\* wouldInvest from true to false and never decreases maxInvestmentUSD
C28_LowerRiskNeverWorse ==
  (IsRiskScorePair /\ call.lower <= call.higher)
    => /\ call.higherDecision.wouldInvest => call.lowerDecision.wouldInvest
       /\ InvestmentOf(call.lowerDecision) >= InvestmentOf(call.higherDecision)

(***************************************************************************)
(* C29: the two outputs of the rugpull analyzer (checked under PureSpec)   *)
(***************************************************************************)
\* C29: hasRugRisk of a rugpull analysis is true exactly when its riskLevel is medium,
\* high or critical, so a token rated medium or worse by the rugpull analyzer has a
\* non-zero rugpull componentScore in its RiskAssessment
C29_RugRiskAgreesWithLevel ==
  IsAgg =>
    LET rated == call.rugpullAnalysis.riskLevel \in {"medium", "high", "critical"}
    IN /\ call.rugpullAnalysis.hasRugRisk <=> rated
       /\ rated => call.assessment.componentScores.rugpull > 0

(***************************************************************************)
(* C30: every stale token is analysed in the end (StarveSpec)              *)
(***************************************************************************)
\* the tokens followed: the first and the last one the first query returns, and the
\* one beyond them
WatchedTokens == {1, ReanalysisLimit, StarveTokens}

\* C30: under repeated ticks of the analysis timer, every active token that is due for
\* re-analysis is eventually analysed by some cycle, however many tokens are stale and
\* whichever analyses of other tokens fail
C30_StaleTokenEventuallyAnalysed ==
  \A m \in WatchedTokens :
    (store[m].isActive /\ store[m].stale /\ m \notin call.mints) ~> ~store[m].stale

====
